-------------------------------- MODULE Vault --------------------------------
(* What the file server promises whoever keeps files on it.  Contents arrive *)
(* whole or not at all; a file is one that has arrived, filed once, or a     *)
(* copy of another file; and it stays what it is until another content is    *)
(* filed in its place or it is removed.  Folders, names, moves, blobs, parts *)
(* and upload sessions are not to be seen here.                              *)
CONSTANTS Ids, Tickets, Contents

VARIABLES
    file,     \* from the ids of the files there are to their contents
    inbox     \* from the tickets of what has arrived and is not filed to contents

vars == <<file, inbox>>

Init == file = << >> /\ inbox = << >>

With(f, x, c)  == [y \in DOMAIN f \cup {x} |-> IF y = x THEN c ELSE f[y]]
Less(f, xs)    == [y \in DOMAIN f \ xs |-> f[y]]

Arrive(u, c) == u \notin DOMAIN inbox /\ inbox' = With(inbox, u, c) /\ UNCHANGED file
Discard(u)   == inbox' = Less(inbox, {u}) /\ UNCHANGED file
File(u, n)   == /\ u \in DOMAIN inbox
                /\ file' = With(file, n, inbox[u]) /\ inbox' = Less(inbox, {u})
Copy(m, n)   == /\ m \in DOMAIN file /\ n \notin DOMAIN file
                /\ file' = With(file, n, file[m]) /\ UNCHANGED inbox
Remove(ns)   == file' = Less(file, ns) /\ UNCHANGED inbox

Next ==
    \/ \E u \in Tickets, c \in Contents : Arrive(u, c)
    \/ \E u \in Tickets : Discard(u)
    \/ \E u \in Tickets, n \in Ids : File(u, n)
    \/ \E m, n \in Ids : Copy(m, n)
    \/ \E ns \in SUBSET DOMAIN file : Remove(ns)

Spec == Init /\ [][Next]_vars
==============================================================================
