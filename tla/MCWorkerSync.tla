---------------------------- MODULE MCWorkerSync ----------------------------
(* Instances of WorkerSync: two clones; a1 and b1 change the same lines.    *)
(* Clone a's worker is never restarted, b's is killed and runs into limits. *)
(* A sync of a is put off after one refused push, b tries again once.       *)
EXTENDS WorkerSync

CONSTANTS a, b, a1, b1

OwnerOf == [w \in Work |-> IF w = a1 THEN a ELSE b]
OnePair == {{a1, b1}}

TheTries == [c \in Clone |-> IF c = a THEN 1 ELSE 2]
TheCycles == [c \in Clone |-> IF c = a THEN 0 ELSE 1]
TheFailures == [c \in Clone |-> IF c = a THEN 0 ELSE 1]
TheFaults == [c \in Clone |-> IF c = a THEN {"offline", "broken", "stop"}
                              ELSE {"kill", "broken", "commit", "exit", "usage"}]

=============================================================================
