------------------------------ MODULE Ownership ------------------------------
(***************************************************************************)
(* What Socket and Stream together promise about descriptors, without      *)
(* objects, flags or calls: each has one holder, only its holder gives it  *)
(* on, an object gives it only to the thread that is to close it, only a   *)
(* thread or the application closes it, and a leak is for ever.            *)
(***************************************************************************)
CONSTANTS Fds, Objects, Threads, App, Lost, Nobody

VARIABLE owner

MayPass(from, to) ==
  \* a system call returned the number, which may be a used one
  \/ from = Nobody /\ to \in Objects \cup Threads \cup {App}
  \* set_socket, and the end of Stream::open
  \/ from \in Threads \cup {App} /\ to \in Objects
  \* an object lets go of its descriptor: to close it, or not
  \/ from \in Objects /\ to \in Threads \cup {Lost}
  \* Stream::open returns without having stored the descriptor
  \/ from \in Threads /\ to = Lost
  \* ::close
  \/ from \in Threads \cup {App} /\ to = Nobody

Init == owner = [fd \in Fds |-> Nobody]

\* One descriptor changes hands.
Next ==
  \E fd \in Fds :
    /\ MayPass(owner[fd], owner'[fd])
    /\ owner' = [owner EXCEPT ![fd] = owner'[fd]]

Spec == Init /\ [][Next]_owner

=============================================================================
