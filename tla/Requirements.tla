----------------------------- MODULE Requirements -----------------------------
(***************************************************************************)
(* The requirement index: authored profile rows, the editorial decisions   *)
(* about them and the draft interpretations that may override them         *)
(* (catalog/requirements.ts), and the three-valued conditions that say     *)
(* whether a row applies to a device (catalog/conditions.ts).  All of it   *)
(* is pure.  Where the code throws, nothing is loaded.                     *)
(*                                                                         *)
(* The catalog is a small one with every case the code tells apart: an     *)
(* operation that two portTypes have, one whose schema is not compiled,    *)
(* one without a response, an add-on service, and services outside it.     *)
(***************************************************************************)
EXTENDS Integers, FiniteSets, Sequences, SequencesExt

-----------------------------------------------------------------------------
\* The locked catalog: operations and services, as the compiler emits them.
Operation(id, ns, port, name, compiled, oneWay) ==
  [id |-> id, ns |-> ns, port |-> port, name |-> name, compiled |-> compiled, oneWay |-> oneWay]
Operations ==
  {Operation("profiles", "main", "M", "GetProfiles", TRUE, FALSE),
   Operation("delete", "main", "M", "DeleteProfile", TRUE, FALSE),
   Operation("stateM", "main", "M", "GetState", TRUE, FALSE),
   Operation("stateN", "main", "N", "GetState", TRUE, FALSE),
   Operation("rules", "main", "M", "GetRules", FALSE, FALSE),
   Operation("notify", "main", "M", "Notify", TRUE, TRUE),
   Operation("extra", "addon", "A", "GetExtra", TRUE, FALSE),
   Operation("topics", "events", "E", "GetEventProperties", TRUE, FALSE)}
  \cup {Operation(id, "events", "P", id, TRUE, FALSE) : id \in {"create", "pull", "unsubscribe"}}
CatalogServices == {o.ns : o \in Operations}
AddOns == {"addon"}

\* A reference without a portType fits every portType.
Ref(name, port) == [name |-> name, port |-> port]
Matching(ns, ref) ==
  {o \in Operations : o.ns = ns /\ o.name = ref.name /\ (ref.port = "" \/ o.port = ref.port)}

-----------------------------------------------------------------------------
\* condition(): an authored expression is read only in its exact form; with an
\* annotation, without terms or with an impossible threshold it is unresolved.
Unresolved == [op |-> "unresolved"]
RECURSIVE Condition(_)
Condition(raw) ==
  LET terms == [i \in DOMAIN raw.of |-> Condition(raw.of[i])]
  IN IF raw.annotated THEN Unresolved
     ELSE CASE raw.op \in {"all", "any"} /\ raw.of # << >> -> [op |-> raw.op, of |-> terms]
            [] raw.op = "not" -> [op |-> "not", of |-> terms]
            [] raw.op = "constant" -> [op |-> "constant", value |-> raw.value]
            [] raw.op = "fact" -> [op |-> "fact", fact |-> raw.fact, equals |-> raw.value]
            [] raw.op = "atLeast" /\ raw.n \in 1..Len(raw.of) -> [op |-> "atLeast", n |-> raw.n, of |-> terms]
            [] OTHER -> Unresolved

\* A fact that is not known, not evidenced or of another type is unknown, never
\* false.
Kind(value) == IF value \in {"true", "false"} THEN "boolean" ELSE "string"
FactOrFalse(c, facts) ==   \* variant: an unobserved capability is absent
  IF c.fact \in DOMAIN facts /\ facts[c.fact] = c.equals THEN "true" ELSE "false"
Fact(c, facts) ==
  IF c.fact \notin DOMAIN facts \/ facts[c.fact] = "unknown" \/ Kind(facts[c.fact]) # Kind(c.equals)
  THEN "unknown"
  ELSE IF facts[c.fact] = c.equals THEN "true" ELSE "false"

AtLeast(n, truths) ==
  LET count(t) == Cardinality({i \in DOMAIN truths : truths[i] = t})
  IN IF count("true") >= n THEN "true"
     ELSE IF count("true") + count("unknown") < n THEN "false" ELSE "unknown"

Negation == [true |-> "false", false |-> "true", unknown |-> "unknown"]
RECURSIVE EvaluateCondition(_, _)
EvaluateCondition(c, facts) ==
  CASE c.op = "constant" -> c.value
    [] c.op = "unresolved" -> "unknown"
    [] c.op = "fact" -> Fact(c, facts)
    [] c.op = "not" -> Negation[EvaluateCondition(c.of[1], facts)]
    [] OTHER -> AtLeast(CASE c.op = "all" -> Len(c.of) [] c.op = "any" -> 1 [] OTHER -> c.n,
                        [i \in DOMAIN c.of |-> EvaluateCondition(c.of[i], facts)])

-----------------------------------------------------------------------------
\* Authored rows.  A null condition is one that always holds.
Raw(op, of, n, fact) ==
  [op |-> op, of |-> of, n |-> n, fact |-> fact, value |-> "true", annotated |-> FALSE]
IsFact(f) == Raw("fact", << >>, 0, f)
Not(c) == Raw("not", <<c>>, 0, "")
All(cs) == Raw("all", cs, 0, "")
Null == Raw("constant", << >>, 0, "")
Authored(condition, native, decisions, group) ==
  [role |-> "device", level |-> "conditional", class |-> "protocol", condition |-> condition,
   native |-> native, reason |-> FALSE, decisions |-> decisions, group |-> group]
Ledger ==
  [always |-> Authored(Null, {Ref("GetProfiles", "")}, {}, "none"),
   feature |-> Authored(IsFact("feature"), {Ref("GetState", "")}, {}, "G"),
   without |-> Authored(Not(IsFact("feature")), {Ref("GetState", "N")}, {}, "none"),
   both |-> Authored(All(<<IsFact("feature"), Not(IsFact("caps"))>>), {Ref("GetNothing", "")}, {}, "G"),
   either |-> Authored(Raw("any", <<IsFact("read"), Not(IsFact("feature"))>>, 0, ""), {}, {}, "none"),
   most |-> Authored(Raw("atLeast", <<IsFact("feature"), IsFact("caps"), IsFact("read")>>, 2, ""), {}, {}, "none"),
   vague |-> [Authored(Null, {}, {}, "none") EXCEPT !.condition.annotated = TRUE],
   process |-> [Authored(IsFact("caps"), {}, {}, "none") EXCEPT !.class = "process", !.reason = TRUE, !.role = "client"],
   disputed |-> Authored(IsFact("feature"), {}, {"E1"}, "none")]
Groups == [G |-> [condition |-> IsFact("feature"), atLeast |-> 1, branches |-> <<{"feature"}, {"both"}>>]]

\* parseRequirement(): the row with its parsed condition; an unknown role, level
\* or classification is refused.
Refusal == [refused |-> TRUE]
ParseRequirement(raw) ==
  IF \/ raw.role \notin {"device", "client"}
     \/ raw.level \notin {"mandatory", "conditional", "optional"}
     \/ raw.class \notin {"protocol", "schema", "capability", "behavior", "process", "notRepresentableTd"}
  THEN Refusal
  ELSE [raw EXCEPT !.condition = Condition(raw.condition)]

\* resolveRequirements(): the operations of a row, and its disposition.
Resolution(row) ==
  LET found(ref) == Matching("main", ref)
      internal == row.class \in {"behavior", "process", "notRepresentableTd"}
      operations == {o.id : o \in UNION {found(ref) : ref \in row.native}}
      unresolved == \/ \E ref \in row.native : Cardinality({o.port : o \in found(ref)}) # 1
                    \/ internal /\ ~row.reason
  IN [operations |-> operations,
      disposition |-> IF unresolved THEN "native-unresolved"
                      ELSE IF internal THEN "behavioral-or-process"
                      ELSE IF operations # {} THEN "mapped" ELSE "schema-or-capability"]

-----------------------------------------------------------------------------
\* Draft interpretations.  Each needs reviewed provenance, its draft edition and
\* release gate; it may change declared fields only, and two of them must agree.
Gates == {"draft", "release"}
Overridable == {"level", "condition", "class", "native", "reason", "group"}
GroupFields == {"branches", "atLeast", "condition"}
PublicMappingInterpretations(mappings) ==
  \A id \in DOMAIN mappings : mappings[id].provenance \in {"public", "reviewed-original"}

Overriding(id, mappings, field) == {m \in DOMAIN mappings : id \in DOMAIN mappings[m][field]}
ChangesFor(id, mappings, field, allowed) ==
  LET deciding == Overriding(id, mappings, field)
      change(m) == mappings[m][field][id]
      changed == UNION {DOMAIN change(m) : m \in deciding}
  IN IF \/ \E m \in deciding : mappings[m].gates # Gates \/ ~(DOMAIN change(m) \subseteq allowed)
        \/ \E m, n \in deciding : \E key \in DOMAIN change(m) \cap DOMAIN change(n) :
             change(m)[key] # change(n)[key]
     THEN Refusal
     ELSE [key \in changed |-> LET m == CHOOSE x \in deciding : key \in DOMAIN change(x) IN change(m)[key]]

Changed(record, changes) ==
  [key \in DOMAIN record |-> IF key \in DOMAIN changes THEN changes[key] ELSE record[key]]
InterpretedRequirement(id, mappings) ==
  LET raw == Ledger[id]
      changes == ChangesFor(id, mappings, "rows", Overridable)
  IN IF ParseRequirement(raw) = Refusal \/ changes = Refusal THEN Refusal
     ELSE ParseRequirement([Changed(raw, changes) EXCEPT
            !.decisions = @ \cup Overriding(id, mappings, "rows")])

\* normalizeGroup(): a group keeps its authored form unless it is interpreted.
NormalizeGroup(id, mappings) ==
  LET changes == ChangesFor(id, mappings, "groups", GroupFields)
  IN IF changes = Refusal THEN Refusal
     ELSE LET group == Changed(Groups[id], changes)
          IN [group EXCEPT !.condition = Condition(group.condition)]

\* loadRequirementIndex(): E1 is the one editorial decision of the ledger; its
\* question stays unresolved unless a loaded draft interpretation supersedes it.
LoadRequirementIndex(mappings, supersededBy) ==
  LET rows == [id \in DOMAIN Ledger |-> InterpretedRequirement(id, mappings)]
      groups == [id \in DOMAIN Groups |-> NormalizeGroup(id, mappings)]
      editorial == {"E1"} \cup DOMAIN mappings
  IN IF \/ ~PublicMappingInterpretations(mappings)
        \/ supersededBy # "none" /\ (supersededBy \notin DOMAIN mappings \/ "draft" \notin mappings[supersededBy].gates)
        \/ \E m \in DOMAIN mappings : \/ ~(DOMAIN mappings[m].rows \subseteq DOMAIN Ledger)
                                      \/ ~(DOMAIN mappings[m].groups \subseteq DOMAIN Groups)
        \/ \E id \in DOMAIN rows : \/ rows[id] = Refusal
                                   \/ ~(rows[id].decisions \subseteq editorial)
                                   \/ rows[id].group \notin DOMAIN Groups \cup {"none"}
        \/ \E id \in DOMAIN groups : \/ groups[id] = Refusal
                                     \/ /\ groups[id].atLeast \in 1..Len(groups[id].branches)
                                        /\ ~(UNION Range(groups[id].branches) \subseteq DOMAIN Ledger)
     THEN Refusal
     ELSE [rows |-> rows, groups |-> groups,
           unresolved |-> IF supersededBy = "none" THEN {"E1"} ELSE {},
           resolutions |-> [id \in DOMAIN rows |-> Resolution(rows[id])]]

-----------------------------------------------------------------------------
\* assessments(): whether a row applies.  An unresolved editorial decision
\* leaves it open whatever its condition says.
Applicability(id, index, facts) ==
  IF index.rows[id].decisions \cap index.unresolved # {} THEN "unknown"
  ELSE EvaluateCondition(index.rows[id].condition, facts)

\* groupAssessments(): a branch is evidenced by every member row being
\* applicable and recorded; the group counts its branches once it applies.
GroupAssessment(id, index, facts) ==
  LET group == index.groups[id]
      member(row) == AtLeast(2, <<EvaluateCondition(index.rows[row].condition, facts),
                                  Fact([fact |-> row, equals |-> "true"], facts)>>)
      branch(rows) == LET truths == [row \in rows |-> member(row)]
                      IN IF rows = {} THEN "unknown" ELSE AtLeast(Cardinality(rows), truths)
  IN IF EvaluateCondition(group.condition, facts) # "true"
     THEN "unknown"
     ELSE AtLeast(group.atLeast, [i \in DOMAIN group.branches |-> branch(group.branches[i])])
=============================================================================
