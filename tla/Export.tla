------------------------------- MODULE Export -------------------------------
(***************************************************************************)
(* What an export promises, with the queue, the workers and the database   *)
(* left out: one process writes the rows of the search result to a file in *)
(* their order, packs the file when all of them are in it, removes it, and *)
(* delivers the archive; or it stops before the archive is there, because  *)
(* it was asked to.  Once it is over nothing is done for it any more.  All *)
(* this only as long as nothing failed.                                    *)
(***************************************************************************)
EXTENDS Naturals, Sequences

VARIABLES
    total,      (* rows in the search result                                *)
    file,       (* the rows in the file of each export                      *)
    archive,    (* and in its archive                                       *)
    live,       (* exports whose process is not over                        *)
    asked,      (* exports the user wants stopped, as far as is recorded    *)
    delivered,  (* exports whose archive the user can get                   *)
    failed      (* something failed                                         *)

vars == <<total, file, archive, live, asked, delivered, failed>>

Upto(n) == [i \in 1..n |-> i]

Init ==
    /\ total \in Nat
    /\ file = <<>> /\ archive = <<>>
    /\ live = {} /\ asked = {} /\ delivered = {}
    /\ failed = FALSE

Begin ==
    /\ file' = Append(file, <<>>) /\ archive' = Append(archive, <<>>)
    /\ live' = live \cup {Len(file) + 1}
    /\ UNCHANGED <<total, asked, delivered, failed>>

Packed(e) == archive[e] # <<>>

\* One row or more is added to the file.
Write(e) ==
    /\ e \in live /\ ~Packed(e)
    /\ \E n \in Len(file[e]) + 1 .. total : file' = [file EXCEPT ![e] = Upto(n)]
    /\ UNCHANGED <<total, archive, live, asked, delivered, failed>>

Pack(e) ==
    /\ e \in live /\ ~Packed(e)
    /\ file[e] = Upto(total) /\ archive' = [archive EXCEPT ![e] = Upto(total)]
    /\ UNCHANGED <<total, file, live, asked, delivered, failed>>

RemoveFile(e) ==
    /\ e \in live /\ Packed(e) /\ archive[e] = file[e]
    /\ file' = [file EXCEPT ![e] = <<>>]
    /\ UNCHANGED <<total, archive, live, asked, delivered, failed>>

Deliver(e) ==
    /\ e \in live /\ Packed(e) /\ file[e] = <<>>
    /\ delivered' = delivered \cup {e} /\ live' = live \ {e}
    /\ UNCHANGED <<total, file, archive, asked, failed>>

\* An export without rows cannot be packed.
Stop(e) ==
    /\ e \in live /\ ~Packed(e)
    /\ e \in asked \/ total = 0
    /\ live' = live \ {e}
    /\ UNCHANGED <<total, file, archive, asked, delivered, failed>>

\* The user asks for what he likes, too late or not.
Ask ==
    /\ asked' \subseteq DOMAIN file
    /\ UNCHANGED <<total, file, archive, live, delivered, failed>>

Step ==
    \/ Begin \/ Ask
    \/ \E e \in live : Write(e) \/ Pack(e) \/ RemoveFile(e) \/ Deliver(e) \/ Stop(e)

Next == failed' \/ Step

Spec == Init /\ [][Next]_vars
=============================================================================
