----------------------------- MODULE MCGraphRun -----------------------------
(* Two small graphs for TLC. *)
EXTENDS GraphRun

Sequence(from, to)  == [from |-> from, to |-> to, kind |-> "sequence"]
OnFailure(from, to) == [from |-> from, to |-> to, kind |-> "on_failure"]

-----------------------------------------------------------------------------
(* A gate, a task and a loop side by side; `publish` needs all three, the map   *)
(* `rescue` handles a failed fetch, `drop` compensates it.                      *)

ReleaseOrder == <<"gate", "loop", "body", "fetch", "publish", "rescue", "patch", "drop">>
ReleaseNodes == {ReleaseOrder[i] : i \in 1..8}
ReleaseParent == [n \in ReleaseNodes |-> CASE n = "body" -> "loop" [] n = "patch" -> "rescue"
                                           [] OTHER -> "top"]
ReleaseKind == [n \in ReleaseNodes |-> CASE n = "gate" -> "gate" [] n = "loop" -> "loop"
                                         [] n = "rescue" -> "map" [] OTHER -> "task"]
ReleaseMode == [n \in ReleaseNodes |-> CASE n = "gate" -> "input" [] n = "loop" -> "until"
                                         [] n = "rescue" -> "fail_fast" [] OTHER -> "none"]
ReleaseEdges == {Sequence("fetch", "publish"), Sequence("gate", "publish"),
                 Sequence("loop", "publish"), OnFailure("fetch", "rescue")}
ReleaseEntrypoints == {"fetch", "gate", "loop", "body", "patch"}
ReleaseJoin == [n \in ReleaseNodes |-> Cardinality({e \in ReleaseEdges : e.to = n})]
ReleaseWhenEdges == {Sequence("gate", "publish")}
ReleaseGroups == [n \in ReleaseNodes |-> IF n \in {"fetch", "loop"} THEN "shared" ELSE "none"]
ReleaseUngrouped == [n \in ReleaseNodes |-> "none"]
ReleaseCompensation == [n \in ReleaseNodes |-> IF n = "fetch" THEN "drop" ELSE "none"]
ReleaseReturns == [fetch |-> {"succeeded", "failed"},
                   gate |-> {"succeeded", "failed", "awaiting_human"}, loop |-> {},
                   body |-> {"succeeded", "failed"}, publish |-> {"succeeded", "blocked"},
                   rescue |-> {}, patch |-> {"succeeded", "failed"},
                   drop |-> {"succeeded"}]

-----------------------------------------------------------------------------
(* A task with a compensation beside a subgraph: a task, a gate and a loop. *)

UpdateOrder == <<"write", "check", "probe", "approve", "apply", "step", "verify", "notify", "revert">>
UpdateParent == [n \in {UpdateOrder[i] : i \in 1..9} |->
                    CASE n \in {"probe", "approve", "apply"} -> "check"
                      [] n \in {"step", "verify"} -> "apply" [] OTHER -> "top"]
UpdateKind == [n \in {UpdateOrder[i] : i \in 1..9} |->
                  CASE n = "check" -> "subgraph" [] n = "approve" -> "gate"
                    [] n = "apply" -> "loop" [] n = "probe" -> "decision" [] OTHER -> "task"]
UpdateMode == [n \in {UpdateOrder[i] : i \in 1..9} |->
                  CASE n = "approve" -> "approve" [] n = "apply" -> "while" [] OTHER -> "none"]
UpdateEdges == {Sequence("write", "notify"), Sequence("check", "notify"),
                Sequence("probe", "approve"), Sequence("approve", "apply"),
                Sequence("step", "verify")}
UpdateEntrypoints == {"write", "check", "probe", "step"}
UpdateJoin == [n \in {UpdateOrder[i] : i \in 1..9} |->
                  Cardinality({e \in UpdateEdges : e.to = n})]
UpdateGroups == [n \in {UpdateOrder[i] : i \in 1..9} |-> "none"]
UpdateCompensation == [n \in {UpdateOrder[i] : i \in 1..9} |->
                          IF n = "write" THEN "revert" ELSE "none"]
UpdateReturns == [write |-> {"succeeded", "failed", "awaiting_human"}, check |-> {},
                  probe |-> {"succeeded", "raised"}, approve |-> {"succeeded", "failed"}, apply |-> {},
                  step |-> {"succeeded", "failed"}, verify |-> {"succeeded", "skipped"},
                  notify |-> {"succeeded", "failed", "raised"},
                  revert |-> {"succeeded", "blocked", "raised"}]
=============================================================================
