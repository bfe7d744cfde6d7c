-------------------------------- MODULE Shelf --------------------------------
(***************************************************************************)
(* What library/mod.rs promises of the files in a show's folders: filing   *)
(* fills free places, and a file that is there is replaced only after the  *)
(* Inbox has asked about its episode ("asks in the Inbox rather than       *)
(* overwriting silently").  A place is <<episode, version>>; folders, file *)
(* operations, crashes and the database are below this level.              *)
(***************************************************************************)
CONSTANTS Places, Files

VARIABLES
    shelf,      \* [Places -> SUBSET Files]: the files in a place, of any folder
    asked       \* places the Inbox has asked about

Init ==
    /\ DOMAIN shelf = Places /\ \A p \in Places : shelf[p] \subseteq Files
    /\ asked = {}

\* A question is about an episode, hence about all its versions.
Ask ==
    /\ asked \subseteq asked' /\ asked' \subseteq Places
    /\ UNCHANGED shelf

\* Files are added; where the Inbox has asked they may also go.
File ==
    /\ \A p \in Places : /\ shelf'[p] \subseteq Files
                         /\ shelf[p] \subseteq shelf'[p] \/ p \in asked
    /\ UNCHANGED asked

Next == Ask \/ File

Spec == Init /\ [][Next]_<<shelf, asked>>
=============================================================================
