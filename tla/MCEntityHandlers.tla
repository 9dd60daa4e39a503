-------------------------- MODULE MCEntityHandlers --------------------------
(* Two entities of one tenant, "b" with an adapted table; a:1 and b:1 are  *)
(* stored and a:1 refers to b:1.  Any three of the requests run together.  *)
EXTENDS EntityHandlers

ref(e, i) == <<"ref", e, i>>
doc1(f, v) == [x \in {f} |-> v]
a1 == <<1, "a", 1>>
b1 == <<1, "b", 1>>

MCStart == [k \in {a1, b1} |-> IF k = a1 THEN [x |-> ref("b", 1)] ELSE [w |-> <<"text", "hello">>]]

R(op, k, data, version) == [op |-> op, key |-> k, data |-> data, version |-> version,
                            append |-> "b", id |-> 0, extra |-> [w |-> ref("a", 1)], limit |-> 1]

MCRequests == {
    R("get", a1, << >>, 0), R("list", a1, << >>, 0),
    R("create", a1, [x |-> ref("b", 1), y |-> ref("a", 1)], 0),
    R("update", a1, [y |-> ref("a", 2)], 1),
    R("save", <<1, "a", 3>>, [x |-> ref("a", 1)], 0),
    R("save", b1, [w |-> <<"text", "bye">>], 0),
    R("patch", a1, [x |-> Null, z |-> ref("b", 2)], 0),
    R("delete", b1, << >>, 0), R("delete", b1, << >>, 1), R("delete", a1, << >>, 0),
    R("commit", a1, [x |-> ref("b", 2)], 1),
    R("rebuild", a1, << >>, 0)}

MCMenus == {SetToSeq(S) : S \in kSubset(3, MCRequests)}

Config(mode, cascade, nulls) ==
    [cycleDetection |-> mode, CascadingDelete |-> cascade, StrictCommit |-> TRUE, PatchNullBehavior |-> nulls]

MCConfigs == {Config("warn", FALSE, "store"), Config("ignore", TRUE, "delete")}
ErrorConfigs == {Config("error", FALSE, "store")}
=============================================================================
