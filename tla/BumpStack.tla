------------------------------ MODULE BumpStack ------------------------------
(***************************************************************************)
(* What the arena of code/allocator.c promises to the code that uses it,   *)
(* without blocks, pages or commits: one cursor over a line of positions,  *)
(* a stack of granted spans below it, and a stack of saved positions the   *)
(* cursor can be rewound to.                                               *)
(***************************************************************************)
EXTENDS Integers, Sequences

VARIABLES pos,      \* the cursor: arenaPosition, 0 when there is no arena
          spans,    \* the granted spans [lo, hi) still in use, oldest first
          saved     \* the saved positions, oldest first: [pos, spans]

vars == <<pos, spans, saved>>

Closed == pos = 0 /\ spans = <<>> /\ saved = <<>>

\* arenaAlloc: the cursor starts above zero, behind the arena's own header.
Open == /\ Closed
        /\ pos' > 0
        /\ UNCHANGED <<spans, saved>>

\* A push that returns memory: everything granted starts at or after the
\* cursor and the cursor ends where the grant ends.
Grant == /\ pos > 0
         /\ \E lo \in pos .. pos' :
              spans' = Append(spans, [lo |-> lo, hi |-> pos'])
         /\ saved' = saved

\* A push that returns NULL may move the cursor forward, and nothing else.
Refuse == /\ pos > 0
          /\ pos' >= pos
          /\ UNCHANGED <<spans, saved>>

Save == /\ pos > 0
        /\ saved' = Append(saved, [pos |-> pos, spans |-> Len(spans)])
        /\ UNCHANGED <<pos, spans>>

\* Back to the latest saved position: the spans granted since are given up.
Rewound == /\ saved # <<>>
           /\ pos' = saved[Len(saved)].pos
           /\ spans' = SubSeq(spans, 1, saved[Len(saved)].spans)

\* scrachEnd at the end of a scratch's life.
Rewind == Rewound /\ saved' = SubSeq(saved, 1, Len(saved) - 1)

\* scrachEnd on a scratch that stays in use, as the event loop's does.
Reuse == Rewound /\ saved' = saved

\* arenaClear keeps the arena and forgets everything else.
Reset == /\ pos > 0
         /\ pos' > 0 /\ pos' <= pos
         /\ spans' = <<>> /\ saved' = <<>>

Close == pos > 0 /\ pos' = 0 /\ spans' = <<>> /\ saved' = <<>>

Next == Open \/ Grant \/ Refuse \/ Save \/ Rewind \/ Reuse \/ Reset \/ Close

Spec == Closed /\ [][Next]_vars
=============================================================================
