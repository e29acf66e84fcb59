-------------------------- MODULE SequentialRender --------------------------
(***************************************************************************)
(* What a backend's Render promises: "the observable sequence stays        *)
(* exactly what the sequential loop produced".  One key after the other is *)
(* reported and written, until the last key or the first failing write.    *)
(***************************************************************************)
EXTENDS Naturals, Sequences

CONSTANTS
    Runs,            \* the target lists a run may have
    Skips(_, _),     \* Skips(keys, i): key i has no file
    Seen(_, _, _)    \* Seen(keys, i, writes): what a run shows of key i

VARIABLES keys, log, end

Init == keys \in Runs /\ log = <<>> /\ end = "running"

Write(writes) ==
    LET i == Len(log) + 1
    IN  /\ end = "running" /\ i <= Len(keys)
        /\ ~writes => ~Skips(keys, i)
        /\ log' = Append(log, Seen(keys, i, writes))
        /\ end' = IF writes THEN "running" ELSE "failed"
        /\ UNCHANGED keys

Return ==
    /\ end = "running" /\ Len(log) = Len(keys)
    /\ end' = "done"
    /\ UNCHANGED <<keys, log>>

Next == Return \/ \E writes \in BOOLEAN : Write(writes)

Spec == Init /\ [][Next]_<<keys, log, end>>
=============================================================================
