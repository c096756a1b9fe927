-------------------------- MODULE MCPatchTransaction --------------------------
(* Small instances of PatchTransaction for TLC.                            *)
EXTENDS PatchRefinement

CONSTANTS d, df, a, b, c, old, new, mine

MCPath == {d, df, a, b, c}
MCContent == {old, new, mine}
MCParent == [p \in MCPath |-> IF p = df THEN d ELSE Root]

(* Two files, and optionally an empty directory.                           *)
TwoFiles == [p \in MCPath |-> IF p \in {a, b} THEN old ELSE Absent]
WithDirectory == [TwoFiles EXCEPT ![d] = Directory]
MCTrees == {TwoFiles, WithDirectory}

Operation(k, p, t, exp, des, con) ==
  [kind |-> k, path |-> p, to |-> t, expected |-> exp, desired |-> des, content |-> con]

create(p, des)   == Operation("create", p, p, NoHash, des, new)
update(p, des)   == Operation("update", p, p, old, des, new)
delete(p)        == Operation("delete", p, p, old, NoHash, NoHash)
rename(p, q, exp)== Operation("rename", p, q, exp, NoHash, NoHash)
mkdir(p)         == Operation("mkdir", p, p, NoHash, NoHash, NoHash)

MkdirCreate    == <<mkdir(d), create(df, new)>>
UpdateCreate   == <<update(a, new), create(c, NoHash)>>
RenameDelete   == <<rename(a, c, old), delete(b)>>
RenameUnhashed == <<rename(a, c, NoHash), update(b, NoHash)>>
DeleteUpdate   == <<delete(a), update(b, new), create(df, new)>>
Overlapping    == <<update(a, new), delete(a)>>
WrongContent   == <<update(a, old)>>
DeleteDirectory== <<update(a, new), delete(d)>>

(* Every kind of operation, declared and undeclared hashes, an operation   *)
(* that depends on an earlier one, one that lacks its directory, and the   *)
(* three plans apply_plan and create_backup refuse.                        *)
MCPlans == {MkdirCreate, UpdateCreate, RenameDelete, RenameUnhashed, DeleteUpdate,
            Overlapping, WrongContent, DeleteDirectory}

NestedPlans  == {MkdirCreate}

(* The editor acts between any two steps of the engine, but for the two    *)
(* steps between a check of a target and the use of its answer, and the    *)
(* step between a write and its read-back.                                 *)
QuietWindows == Phase \ {"verified", "effected", "rb_verified"}
NoWindows == {}
=============================================================================
