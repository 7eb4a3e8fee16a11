--------------------------- MODULE MCManagerLoop ---------------------------
(* Small instances of ManagerLoop.                                         *)
EXTENDS ManagerLoop, TLC

CONSTANTS a, b, w1, w2, p1, p2

Green(w, paths) == [risk |-> "green", readOnly |-> FALSE, ws |-> w, paths |-> paths, deps |-> {}]
RedOne == [Green(w1, {p2}) EXCEPT !.risk = "red"]

(* Two tasks in one workspace, or in two with the same paths; the first    *)
(* may be read-only, the second red.                                       *)
RivalIntakes == (a :> {Green(w1, {p1}), [Green(w1, {p1}) EXCEPT !.readOnly = TRUE]})
                  @@ (b :> {RedOne, Green(w2, {p1})})

(* A task, and one that waits for its workspace or for its result.         *)
WaitingIntakes == (a :> {Green(w1, {p1})}) @@ (b :> {RedOne, [Green(w2, {p2}) EXCEPT !.deps = {a}]})
============================================================================
