----------------------------- MODULE Extraction -----------------------------
(***************************************************************************)
(* What a download to the file system promises to the server: below the    *)
(* destination there is never a byte that the request did not ask for, the *)
(* files grow in order, the answer says success only of all of them, and a *)
(* failure takes back what was written, unless it is on record that        *)
(* something was kept.  A file that the file system lost is beyond the     *)
(* promise: it may be shorter than it was, and success is answered all the *)
(* same.                                                                   *)
(***************************************************************************)
EXTENDS Sequences, SequencesExt

CONSTANTS Names, Absent

VARIABLES
  wanted,   \* the content of each file in what the server offers
  files,    \* what the transfer wrote
  lost,     \* the files that the file system did not keep as they were written
  verdict,  \* idle, none while the transfer runs, then ok or error
  kept      \* files of a failed transfer may stay

Nothing == [n \in Names |-> Absent]

Init == files = Nothing /\ lost = {} /\ verdict \in {"idle", "none"} /\ kept = FALSE

Ask ==
  /\ verdict = "idle" /\ files = Nothing
  /\ verdict' = "none" /\ files' = Nothing /\ kept' = FALSE /\ UNCHANGED lost

\* From one content of a file to a longer part of the wanted one.
Grows(old, new, whole) ==
  /\ new # Absent /\ whole # Absent /\ IsPrefix(new, whole)
  /\ old # Absent => IsPrefix(old, new)

\* A file that is lost may be left with no more than the start of what it held.
Shrinks(n) == n \in lost' /\ files[n] # Absent /\ files'[n] # Absent /\ IsPrefix(files'[n], files[n])

Write ==
  /\ verdict = "none" /\ lost \subseteq lost'
  /\ \A n \in Names : files'[n] # files[n] => Grows(files[n], files'[n], wanted[n]) \/ Shrinks(n)
  /\ UNCHANGED <<wanted, verdict, kept>>

Discard ==
  /\ verdict = "none" /\ lost \subseteq lost'
  /\ \A n \in Names : files'[n] \in {files[n], Absent} \/ Shrinks(n)
  /\ files' # Nothing => kept'
  /\ UNCHANGED <<wanted, verdict>>

Answer ==
  /\ verdict = "none" /\ verdict' \in {"ok", "error"}
  /\ verdict' = "ok" => \A n \in Names \ lost : files[n] = wanted[n]
  /\ verdict' = "error" => files = Nothing \/ kept
  /\ UNCHANGED <<wanted, files, lost, kept>>

Next == Ask \/ Write \/ Discard \/ Answer
Spec == Init /\ [][Next]_<<wanted, files, lost, verdict, kept>>
=============================================================================
