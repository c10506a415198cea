--------------------------- MODULE ImageCatalogue ---------------------------
(***************************************************************************)
(* What the image store promises: a version an image points at, and a      *)
(* version under an instance's disk, is complete and stays complete.       *)
(* Versions come and go otherwise.                                         *)
(***************************************************************************)
CONSTANTS Image, Checksum, Inst

VARIABLES
  ready,    \* the complete versions
  current,  \* image -> {} or {the version the next instance starts from}
  under     \* instance -> {} or {the version its disk is backed by}

Needed == (UNION {current[i] : i \in Image}) \cup (UNION {under[u] : u \in Inst})

Init ==
  /\ ready = {}
  /\ current = [i \in Image |-> {}]
  /\ under = [u \in Inst |-> {}]

\* A version becomes complete.
Gain == \E c \in Checksum \ ready : ready' = ready \cup {c} /\ UNCHANGED <<current, under>>

\* A version nothing needs goes.
Retire == \E c \in ready \ Needed : ready' = ready \ {c} /\ UNCHANGED <<current, under>>

\* An image points at a complete version.
Point == \E i \in Image, c \in ready :
           current' = [current EXCEPT ![i] = {c}] /\ UNCHANGED <<ready, under>>

\* A disk is made over a complete version, and removed.
Make == \E u \in Inst, c \in ready :
          under[u] = {} /\ under' = [under EXCEPT ![u] = {c}] /\ UNCHANGED <<ready, current>>
Unmake == \E u \in Inst :
            under[u] # {} /\ under' = [under EXCEPT ![u] = {}] /\ UNCHANGED <<ready, current>>

Next == Gain \/ Retire \/ Point \/ Make \/ Unmake

Spec == Init /\ [][Next]_<<ready, current, under>>
=============================================================================
