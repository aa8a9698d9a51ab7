--------------------------- MODULE ScenarioLoader ---------------------------
(***************************************************************************)
(* controller/atf_ctrl/scenarios/loader.py: a scenario file may extend     *)
(* another one.  A document is a mapping, a function from keys to entries; *)
(* an entry is a scalar or a list, [leaf |-> v], or a mapping of its own,  *)
(* [kids |-> f].  Documents are two levels deep here; scenarios have a     *)
(* third (preflight.software), which DeepMerge reaches by its recursion.   *)
(***************************************************************************)
EXTENDS Integers, Sequences

CONSTANTS Keys, Leaves   \* keys and scalars of the documents

\* The words for what is not a scalar.
ASSUME LoaderAssumption == {"nothing", "mapping"} \cap Leaves = {}

VARIABLES loaded    \* the files load has read, and what it has returned or raised

Scalars == [leaf : Leaves]
Flat == UNION {[S -> Scalars] : S \in SUBSET Keys}
Documents == UNION {[S -> Scalars \cup [kids : Flat]] : S \in SUBSET Keys}

IsDict(entry) == "kids" \in DOMAIN entry

LoaderInit == loaded = [status |-> "none"]

\* Mutant: a mapping replaces a mapping.
ShallowMerge(base, override) ==
    [k \in DOMAIN base \cup DOMAIN override |->
        IF k \in DOMAIN override THEN override[k] ELSE base[k]]

(* _deep_merge: mappings are merged, anything else is replaced. *)
DeepMerge(base, override) ==
    LET merged[pair \in Documents \X Documents] ==
            LET b == pair[1]
                o == pair[2]
            IN  [k \in DOMAIN b \cup DOMAIN o |->
                    IF k \notin DOMAIN o THEN b[k]
                    ELSE IF k \in DOMAIN b /\ IsDict(b[k]) /\ IsDict(o[k])
                    THEN [kids |-> merged[<<b[k].kids, o[k].kids>>]]
                    ELSE o[k]]
    IN  merged[<<base, override>>]

(* load and _read_yaml: one level of extends, what the base itself extends *)
(* is dropped, and either file may be missing.  The rest is checked by     *)
(* pydantic, which may refuse it.                                          *)
Load(own, extends, base) ==
    LET doc == IF extends THEN DeepMerge(base, own) ELSE own
    IN  \E status \in {"ok", "ValueError", "FileNotFoundError"} :
            loaded' = [status |-> status, own |-> own, base |-> base,
                       doc |-> IF status = "ok" THEN doc ELSE <<>>]

LoaderNext ==
    /\ loaded.status = "none"
    /\ \E own, base \in Documents, extends \in BOOLEAN :
            (extends \/ base = <<>>) /\ Load(own, extends, base)

\* What a document has at a path of one or two keys.
Get(doc, path) ==
    IF path[1] \notin DOMAIN doc THEN "nothing"
    ELSE IF Len(path) = 1
    THEN IF IsDict(doc[path[1]]) THEN "mapping" ELSE doc[path[1]].leaf
    ELSE IF IsDict(doc[path[1]]) /\ path[2] \in DOMAIN doc[path[1]].kids
    THEN doc[path[1]].kids[path[2]].leaf ELSE "nothing"

(* A loaded scenario has at every path what its file says there, and where *)
(* the file says nothing, neither there nor with a scalar above, what the  *)
(* file it extends says itself (load, _deep_merge).                        *)
MergedByPath ==
    loaded.status = "ok" =>
        \A path \in (Keys \X Keys) \cup {<<k>> : k \in Keys} :
            Get(loaded.doc, path) =
                IF Get(loaded.own, path) # "nothing" THEN Get(loaded.own, path)
                ELSE IF Get(loaded.own, <<path[1]>>) \in {"nothing", "mapping"}
                THEN Get(loaded.base, path)
                ELSE "nothing"

=============================================================================
