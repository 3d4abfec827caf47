----------------------------- MODULE GatewayProofs -----------------------------
(***************************************************************************)
(* For any Directory contract and any Directory defects, any set of other  *)
(* clients' entries, any number of revisions, faults, crashes and changes: *)
(* what the gateway believes of its two publication targets is so, and     *)
(* nothing of it outlives close().                                         *)
(***************************************************************************)
EXTENDS Gateway, FiniteSetTheorems, SequenceTheorems, WellFoundedInduction, TLAPS

Requests == {"create", "replace", "stale", "renew", "delete", "cleanup"}
Records == [title : {"none", "probe", "update"}, etag : Nat, ttl : BOOLEAN, lease : Nat]
DirectoryTypeOK ==
  /\ agreed \subseteq {"etag", "ttl", "patch", "roundtrip", "revision"}
  /\ collection \subseteq Ids /\ {revision, attempt, stale, changes, losses} \subseteq Nat
  /\ {probe, current} \subseteq Records /\ created \in BOOLEAN
  /\ at \in {"idle"} \cup Listing \cup Getting \cup Requests \cup Ended
  /\ list \in [page : Nat, offset : Nat, previous : Int, ids : SUBSET Ids, revision : Int,
               base : SUBSET Ids, restart : Nat]

\* What a listing under way has gathered.  Unless the collection has changed
\* since its last page, this is what the Directory lists before the next page.
Gathered ==
  at \in Listing =>
    /\ list.page = 0 => list = [NoList EXCEPT !.restart = list.restart]
    /\ list.page > 0 => list.revision \in 0..revision
    /\ list.page > 0 /\ "revision" \in agreed /\ list.revision = revision =>
         list.base = Page /\ list.ids = {id \in Page : Rank(id) < list.offset}
    /\ "unlisted" \in flaws => Probe \notin list.ids

\* Where the probe is, and what preflight() knows of it, at each of its awaits.
Alive == {"get2", "list2", "replace", "get3", "stale", "renew", "get4", "delete"}
Probed ==
  /\ probe.etag <= revision
  /\ at = "create" => probe = Nothing
  /\ at \in Alive => probe # Nothing /\ created
  /\ at \in {"list2", "replace", "stale", "renew", "delete"} => current = probe
  /\ at \in {"get3", "get4"} => current # Nothing
  /\ at = "get2" => (probe.ttl <=> Ttl_ /\ "lease" \notin flaws)
  /\ at \in {"list2", "replace"} => probe.title = "probe" /\ stale = probe.etag
  /\ at = "get3" => IF "unreplaced" \in flaws THEN probe.title = "probe" ELSE stale < probe.etag
  /\ at = "stale" => "etag" \in agreed /\ stale < probe.etag
  /\ at = "get4" /\ "unrenewed" \in flaws => probe = current
  /\ at = "get5" => (probe = Nothing <=> "undeleted" \notin flaws)

\* Each defect that concerns the contract is excluded by one of the steps.
Excluded ==
  LET round == at = "passed" /\ "roundtrip" \in agreed IN
  /\ at \in (Alive \ {"get2"}) \cup {"get5"} \/ round => (Ttl_ => "lease" \notin flaws)
  /\ at \in (Alive \ {"get2", "list2"}) \cup {"get5"} \/ round => "unlisted" \notin flaws
  /\ at \in {"stale", "renew", "get4", "delete", "get5"} \/ round => "unreplaced" \notin flaws
  /\ at \in {"renew", "get4", "delete", "get5"} \/ round => ("etag" \in agreed => "unconditional" \notin flaws)
  /\ at \in {"delete", "get5"} \/ round => (Ttl_ /\ "patch" \in agreed => "unrenewed" \notin flaws)
  /\ round => "undeleted" \notin flaws /\ probe = Nothing

\* While no request was lost, the probe is there only when preflight() still has
\* the means to delete it.
Removable ==
  losses = 0 /\ "undeleted" \notin flaws =>
    /\ at \in {"idle", "list1", "get1"} \cup Ended => probe = Nothing
    /\ at = "cleanup" => Matches(current.etag)

DirectoryInv == DirectoryTypeOK /\ ListConsistent /\ Gathered /\ Probed /\ Excluded /\ Removable

-----------------------------------------------------------------------------
Bundles == {"models", "things"}
Active == {"check", "write", "save"}
Hashes == Nat \cup {Edited}
GatewayTypeOK ==
  /\ life \in {"new", "starting", "running", "closing", "failed", "closed"}
  /\ starting \in {"none", "publisher", "engine", "publishing", "cleaning", "done", "failed"}
  /\ closing \in {"none", "engine", "publisher", "closed"}
  /\ engine \in {"none", "running", "closed"}
  /\ {published, launches, faults} \subseteq Nat
  /\ disk \in [Docs -> Hashes] /\ manifest \in [Owned -> [Docs -> Hashes]]
  /\ entries \in [Owned -> [Docs -> Hashes]] /\ known \in [Owned -> BOOLEAN]
  /\ opened \in [Owned -> {"none", "open", "failed"}]
  /\ locked \subseteq Owned /\ orphaned \subseteq Docs
  /\ job \in [Slots -> [stage : {"idle", "reconcile", "begin", "hosted"} \cup Active,
                        bundle : Bundles, rev : Nat, left : Seq(Docs)]]

\* A publication is at a document of its bundle.
Lefts(v) == IF v = 1 THEN {<<"t1", "t2", "index">>, <<"t2", "index">>, <<"index">>}
            ELSE {<<"t1", "index">>, <<"index">>}
Placed(j) ==
  \/ j = NoJob
  \/ j.stage = "reconcile" /\ j.bundle = "models"
  \/ j.rev # 0 /\ j.bundle = "models" /\ (j.stage = "hosted" \/ (j.stage \in {"begin"} \cup Active /\ j.left = <<ModelOf(j.rev)>>))
  \/ j.rev # 0 /\ j.bundle = "things" /\ j.stage \in {"begin"} \cup Active /\ j.left \in Lefts(j.rev)

\* The documents a publication has passed are on disk.
Written(j, on) ==
  /\ j.stage = "hosted" \/ j.bundle = "things" => on[ModelOf(j.rev)] # 0
  /\ j.bundle = "things" /\ Head(j.left) \in {"t2", "index"} => on["t1"] # 0
  /\ j.bundle = "things" /\ j.rev = 1 /\ Head(j.left) = "index" => on["t2"] # 0
  /\ j.stage = "save" => on[Head(j.left)] # 0
Passed == \A s \in Slots : Placed(job[s]) /\ Written(job[s], disk)

\* One batch at a time is in a bundle, and its files are open.
Alone ==
  /\ \A s, o \in Slots : s # o /\ {job[s].stage, job[o].stage} \subseteq Active => job[s].bundle # job[o].bundle
  /\ \A s \in Slots : job[s].stage \in Active => opened[job[s].bundle] = "open"

\* The entries in memory describe what the next save of the manifest will make
\* official: what was written last, and all that is not known to be cut off.
Saving(d) == \E s \in Slots : job[s].stage = "save" /\ Head(job[s].left) = d
Current ==
  /\ \A s \in Slots : job[s].stage = "save" =>
       disk[Head(job[s].left)] \in {Edited, entries[job[s].bundle][Head(job[s].left)]}
  /\ \A d \in Docs \ orphaned :
       opened[BundleOf(d)] = "open" => disk[d] \in {0, Edited, entries[BundleOf(d)][d]} \/ Saving(d)
FilesInv == Passed /\ Alone /\ Current /\ FilesConsistent

\* close() advances only over what has ended, and nothing starts behind it.
Closing ==
  /\ closing # "none" => life \in {"closing", "failed", "closed"}
  /\ closing \in {"publisher", "closed"} => engine # "running" /\ job["refresh"] = NoJob
  /\ closing = "closed" => NothingAfterClose
  /\ "directory" \notin mode => at = "idle"
  /\ job["initial"] # NoJob => starting = "publishing"

GatewayInv == DirectoryInv /\ GatewayTypeOK /\ FilesInv /\ Closing

-----------------------------------------------------------------------------
\* A set of natural numbers has a least element.
LEMMA LeastExists ==
  ASSUME NEW T \in SUBSET Nat, T # {}
  PROVE  \E x \in T : \A y \in T : x <= y
<1>1. \E x \in T : \A y \in T : ~ (<<y, x>> \in OpToRel(<, Nat))
  BY NatLessThanWellFounded, WFMin, Zenon
<1>2. \E x \in T : \A y \in T : ~ (y < x)
  BY <1>1, Zenon DEF OpToRel
<1>3. QED
  BY <1>2

\* A finite set of natural numbers has a greatest element: the one with the
\* fewest elements above it.
LEMMA GreatestExists ==
  ASSUME NEW S \in SUBSET Nat, IsFiniteSet(S), S # {}
  PROVE  Max(S) \in S /\ \A y \in S : y <= Max(S)
<1> DEFINE Above(x) == {y \in S : y > x}
           Counts == {Cardinality(Above(x)) : x \in S}
<1>1. \A x \in S : IsFiniteSet(Above(x)) /\ Cardinality(Above(x)) \in Nat
  <2>1. \A x \in S : Above(x) \subseteq S
    OBVIOUS
  <2> HIDE DEF Above
  <2>2. QED
    BY <2>1, FS_Subset, FS_CardinalityType
<1>2. PICK x \in S : \A y \in S : Cardinality(Above(x)) <= Cardinality(Above(y))
  <2> HIDE DEF Above
  <2>1. Counts \in SUBSET Nat /\ Counts # {}
    BY <1>1
  <2>2. PICK c \in Counts : \A e \in Counts : c <= e
    <3> HIDE DEF Counts
    <3>1. QED
      BY <2>1, LeastExists
  <2>3. QED
    BY <2>2
<1>3. \A y \in S : y <= x
  <2> SUFFICES ASSUME NEW y \in S, y > x PROVE FALSE
    OBVIOUS
  <2>1. Above(y) \subseteq Above(x) /\ Above(y) # Above(x)
    <3>1. y \in Above(x) /\ y \notin Above(y)
      OBVIOUS
    <3>2. \A z \in Above(y) : z \in Above(x)
      OBVIOUS
    <3> HIDE DEF Above
    <3>3. QED
      BY <3>1, <3>2
  <2> HIDE DEF Above
  <2>2. Cardinality(Above(y)) < Cardinality(Above(x))
    BY <1>1, <2>1, FS_Subset
  <2>3. QED
    BY <1>1, <1>2, <2>2
<1>4. \E m \in S : \A y \in S : m >= y
  BY <1>3
<1>5. QED
  BY <1>4 DEF Max

LEMMA ListedFinite ==
  ASSUME DirectoryTypeOK
  PROVE  /\ Page \subseteq Ids /\ IsFiniteSet(Page) /\ Cardinality(Page) \in Nat
         /\ \A id \in Page : Rank(id) \in Nat /\ Rank(id) < Cardinality(Page)
         /\ Slice \subseteq Page /\ IsFiniteSet(Slice)
         /\ Slice # {} => Max(Slice) \in Int
<1>1. Page \subseteq Ids
  BY DEF Page, DirectoryTypeOK
<1>2. IsFiniteSet(Page) /\ Cardinality(Page) \in Nat
  BY <1>1, DirectoryAssumption, FS_Subset, FS_CardinalityType
<1>3. \A id \in Page : Rank(id) \in Nat /\ Rank(id) < Cardinality(Page)
  <2> TAKE id \in Page
  <2> DEFINE Below == {x \in Page : x < id}
  <2>1. Below \subseteq Page /\ id \notin Below /\ id \in Page
    <3>1. id \in Nat
      BY <1>1, DirectoryAssumption
    <3>2. QED
      BY <3>1
  <2>2. Rank(id) = Cardinality(Below)
    BY DEF Rank
  <2> HIDE DEF Below
  <2>3. Below # Page
    BY <2>1
  <2>4. Cardinality(Below) \in Nat /\ Cardinality(Below) < Cardinality(Page)
    BY <1>2, <2>1, <2>3, FS_Subset, FS_CardinalityType
  <2>5. QED
    BY <2>2, <2>4
<1>4. Slice \subseteq Page
  BY DEF Slice
<1>5. IsFiniteSet(Slice)
  BY <1>2, <1>4, FS_Subset
<1>6. Slice # {} => Max(Slice) \in Int
  <2>1. Slice \in SUBSET Nat /\ \A n \in Slice : n \in Int
    BY <1>1, <1>4, DirectoryAssumption
  <2>2. Slice # {} => Max(Slice) \in Slice
    BY <1>5, <2>1, GreatestExists
  <2>3. QED
    BY <2>1, <2>2, Zenon
<1>7. QED
  BY <1>1, <1>2, <1>3, <1>4, <1>5, <1>6

\* A page continues the listing where the last one ended; the last one completes it.
LEMMA PageContinues ==
  ASSUME DirectoryTypeOK
  PROVE  /\ {id \in Page : Rank(id) < list.offset} \cup Slice = {id \in Page : Rank(id) < list.offset + PageSize}
         /\ ~(list.offset + PageSize < Cardinality(Page)) =>
              {id \in Page : Rank(id) < list.offset + PageSize} = Page
         /\ {id \in Page : Rank(id) < 0} = {}
<1>1. list.offset \in Nat /\ PageSize \in Nat \ {0}
  BY DirectoryAssumption DEF DirectoryTypeOK
<1>2. Cardinality(Page) \in Nat /\ \A id \in Page : Rank(id) \in Nat /\ Rank(id) < Cardinality(Page)
  BY ListedFinite
<1>3. \A id \in Page : Rank(id) < list.offset \/ Rank(id) \in list.offset .. list.offset + PageSize - 1
        <=> Rank(id) < list.offset + PageSize
  BY <1>1, <1>2
<1>4. QED
  BY <1>1, <1>2, <1>3 DEF Slice

Got == [list EXCEPT !.page = @ + 1, !.offset = @ + PageSize, !.ids = @ \cup Slice,
          !.previous = IF Slice = {} THEN @ ELSE Max(Slice), !.revision = revision,
          !.base = IF list.page = 0 THEN Page ELSE @]
Again == [NoList EXCEPT !.restart = list.restart + 1]

\* What a page leads to.
LEMMA ListPageCases ==
  ASSUME ListPage
  PROVE  /\ at \in Listing /\ attempt' = 0 /\ UNCHANGED <<fixed, remoteVars, locals, changes, losses>>
         /\ \/ Changed \/ Disordered
            \/ "revision" \in agreed => list.revision \in {-1, revision}
         /\ \/ list' = Again /\ at' = at
            \/ list' = list /\ at' = Failing
            \/ ~(Changed \/ Disordered) /\ list' = Got /\ at' = at
            \/ ~(Changed \/ Disordered) /\ list' = Got /\ at' = Failing
            \/ /\ ~(Changed \/ Disordered) /\ list' = Got /\ at' = Listed
               /\ ~(list.offset + PageSize < Cardinality(Page))
<1>1. at \in Listing /\ attempt' = 0 /\ UNCHANGED <<fixed, remoteVars, locals, changes, losses>>
  BY DEF ListPage
<1>2. ~(Changed \/ Disordered) => ("revision" \in agreed => list.revision \in {-1, revision})
  BY DEF Changed
<1>3. CASE Changed \/ Disordered
  <2>1. Restart
    BY <1>3, Zenon DEF ListPage
  <2>2. QED
    BY <1>1, <2>1, <1>3, Zenon DEF Restart, Again
<1>4. CASE ~(Changed \/ Disordered)
  <2> DEFINE more == list.offset + PageSize < Cardinality(Page)
  <2>1. IF "stuck" \in flaws /\ more THEN at' = Failing /\ UNCHANGED list
        ELSE IF more /\ Got.page < MaxPages THEN list' = Got /\ UNCHANGED at
        ELSE at' = (IF more THEN Failing ELSE Listed) /\ list' = Got
    BY <1>4, Zenon DEF ListPage, Got
  <2> HIDE DEF more
  <2>2. \/ list' = list /\ at' = Failing
        \/ list' = Got /\ at' = at
        \/ list' = Got /\ at' = Failing
        \/ list' = Got /\ at' = Listed /\ ~more
    BY <2>1, Zenon
  <2>3. QED
    BY <1>1, <1>2, <1>4, <2>2, Zenon DEF more
<1>5. QED
  BY <1>3, <1>4, Zenon

ListType == [page : Nat, offset : Nat, previous : Int, ids : SUBSET Ids, revision : Int,
             base : SUBSET Ids, restart : Nat]
LEMMA ListTypes ==
  ASSUME DirectoryTypeOK
  PROVE  /\ list \in ListType /\ NoList \in ListType
         /\ Again \in ListType /\ Again = [NoList EXCEPT !.restart = Again.restart]
         /\ Got \in ListType
         /\ Got.page = list.page + 1 /\ Got.offset = list.offset + PageSize
         /\ Got.ids = list.ids \cup Slice /\ Got.revision = revision
         /\ Got.base = IF list.page = 0 THEN Page ELSE list.base
<1>1. list \in ListType
  BY DEF DirectoryTypeOK, ListType
<1>2. NoList \in ListType
  BY DEF NoList, ListType
<1>3. Again \in ListType /\ Again = [NoList EXCEPT !.restart = Again.restart]
  BY <1>1 DEF NoList, ListType, Again
<1>4. Page \subseteq Ids /\ Slice \subseteq Ids
  BY ListedFinite
<1>5. (IF Slice = {} THEN list.previous ELSE Max(Slice)) \in Int
  BY <1>1, ListedFinite, Zenon DEF ListType
<1>6. PageSize \in Nat /\ revision \in Nat
  BY DirectoryAssumption DEF DirectoryTypeOK
<1> DEFINE p == IF Slice = {} THEN list.previous ELSE Max(Slice)
           b == IF list.page = 0 THEN Page ELSE list.base
<1>7. p \in Int /\ b \in SUBSET Ids
  BY <1>1, <1>4, <1>5 DEF ListType
<1> DEFINE n == list.page + 1
           o == list.offset + PageSize
           i == list.ids \cup Slice
<1>8. Got = [list EXCEPT !.page = n, !.offset = o, !.ids = i, !.previous = p, !.revision = revision, !.base = b]
  BY DEF Got
<1>9. n \in Nat /\ o \in Nat /\ i \in SUBSET Ids /\ revision \in Int
  BY <1>1, <1>4, <1>6 DEF ListType
<1> HIDE DEF p, b, n, o, i
<1>10. /\ Got \in ListType
       /\ Got.page = n /\ Got.offset = o /\ Got.ids = i /\ Got.revision = revision /\ Got.base = b
  BY <1>1, <1>7, <1>8, <1>9 DEF ListType
<1>11. QED
  BY <1>1, <1>2, <1>3, <1>10, Zenon DEF b, n, o, i

\* What a page of the first or the second listing leads to, seen from preflight().
LEMMA ListPageEnds ==
  ASSUME DirectoryInv, ListPage
  PROVE  /\ at \in Listing
         /\ \/ at' = at
            \/ at = "list1" /\ at' = "failed"
            \/ at = "list2" /\ at' = "cleanup"
            \/ at = "list1" /\ at' = Listed /\ at' = "get1"
            \/ at = "list1" /\ at' = Listed /\ at' = "passed" /\ "roundtrip" \notin agreed
            \/ at = "list2" /\ at' = Listed /\ at' = "replace" /\ Probe \in Slice \cup list.ids
<1>1. at \in Listing /\ at' \in {at, Failing, Listed}
  BY ListPageCases, Zenon
<1>2. CASE at = "list1"
  BY <1>1, <1>2 DEF Listed, Failing
<1>3. CASE at = "list2"
  <2>1. created /\ current # Nothing
    BY <1>3 DEF DirectoryInv, Probed, Alive
  <2>2. Failing = "cleanup"
    BY <1>3, <2>1 DEF Failing, Deletable
  <2>3. QED
    BY <1>1, <1>3, <2>2 DEF Listed
<1>4. QED
  BY <1>1, <1>2, <1>3 DEF Listing

LEMMA ListPageList ==
  ASSUME DirectoryInv, ListPage
  PROVE  list' \in ListType /\ ListConsistent' /\ Gathered'
<1> DEFINE old == list
<1>1. DirectoryTypeOK /\ Gathered /\ at \in Listing
  BY ListPageCases DEF DirectoryInv
<1>2. list' \in ListType
  BY <1>1, ListTypes, ListPageCases, Zenon
<1>3. UNCHANGED <<agreed, flaws, collection, revision>>
  BY ListPageCases DEF fixed, remoteVars
<1>4. CASE list' = Again /\ at' = at
  BY <1>1, <1>2, <1>4, ListTypes DEF ListConsistent, Gathered, Again, NoList, ListType
<1>5. CASE list' = list /\ (at' = at \/ at' = Failing)
  <2>1. Gathered'
    BY <1>1, <1>3, <1>5 DEF Gathered, Page, Rank, Failing, Listing
  <2>2. ListConsistent'
    BY <1>1, <1>5 DEF ListConsistent, Failing, Listing
  <2>3. QED
    BY <1>2, <2>1, <2>2
<1>6. CASE ~(Changed \/ Disordered) /\ list' = Got
  <2>1. /\ list.page \in Nat /\ list.offset \in Nat /\ list.revision \in Int /\ list.restart \in Nat
        /\ revision \in Nat /\ PageSize \in Nat \ {0}
    BY <1>1, ListTypes, DirectoryAssumption DEF ListType, DirectoryTypeOK
  <2>2. Got.page > 0 /\ Got.revision \in 0..revision
    BY <1>1, <2>1, ListTypes
  <2>3. "unlisted" \in flaws => Probe \notin Got.ids
    <3>1. "unlisted" \in flaws => Probe \notin list.ids /\ Probe \notin Slice
      BY <1>1 DEF Gathered, Slice, Page
    <3>2. QED
      BY <1>1, <3>1, ListTypes
  <2>4. "revision" \in agreed =>
          Got.base = Page /\ Got.ids = {id \in Page : Rank(id) < Got.offset}
    <3> SUFFICES ASSUME "revision" \in agreed
                 PROVE  Got.base = Page /\ Got.ids = {id \in Page : Rank(id) < Got.offset}
      OBVIOUS
    <3>1. CASE list.page = 0
      <4>1. list.ids = {} /\ list.offset = 0
        BY <1>1, <3>1 DEF Gathered, NoList
      <4>2. {id \in Page : Rank(id) < list.offset} = {}
        BY <1>1, <4>1, PageContinues
      <4>3. QED
        BY <1>1, <3>1, <4>1, <4>2, ListTypes, PageContinues, ZenonT(40)
    <3>2. CASE list.page > 0
      <4>1. list.revision = revision
        BY <1>1, <1>6, <2>1, <3>2 DEF Changed, Gathered
      <4>2. list.base = Page /\ list.ids = {id \in Page : Rank(id) < list.offset}
        BY <1>1, <3>2, <4>1 DEF Gathered
      <4>3. list.page # 0
        BY <3>2
      <4>4. Got.base = list.base
        BY <1>1, <4>3, ListTypes, Zenon
      <4>5. Got.ids = {id \in Page : Rank(id) < Got.offset}
        BY <1>1, <4>2, ListTypes, PageContinues, ZenonT(40)
      <4>6. QED
        BY <4>2, <4>4, <4>5, Zenon
    <3>3. QED
      BY <2>1, <3>1, <3>2
  <2>5. Gathered'
    <3>1. Page' = Page /\ \A id : Rank(id)' = Rank(id)
      BY <1>3 DEF Page, Rank
    <3>2. list'.page # 0 /\ (list'.page > 0) /\ list'.revision \in 0..revision'
      BY <1>3, <1>6, <2>2, <2>1, ListTypes, <1>1
    <3>3. "unlisted" \in flaws' => Probe \notin list'.ids
      BY <1>3, <1>6, <2>3
    <3>4. "revision" \in agreed' => list'.base = Page' /\ list'.ids = {id \in Page : Rank(id) < list'.offset}
      BY <1>3, <1>6, <2>4, <3>1, Zenon
    <3>5. {id \in Page : Rank(id) < list'.offset} = {id \in Page' : Rank(id)' < list'.offset}
      BY <3>1
    <3> DEFINE seen == {id \in Page' : Rank(id)' < list'.offset}
    <3>6. "revision" \in agreed' => list'.base = Page' /\ list'.ids = seen
      BY <3>4, <3>5, Zenon
    <3> HIDE DEF seen
    <3>7. Gathered' = (at' \in Listing =>
              /\ list'.page = 0 => list' = [NoList EXCEPT !.restart = list'.restart]
              /\ list'.page > 0 => list'.revision \in 0..revision'
              /\ list'.page > 0 /\ "revision" \in agreed' /\ list'.revision = revision' =>
                   list'.base = Page' /\ list'.ids = seen
              /\ "unlisted" \in flaws' => Probe \notin list'.ids)
      BY Zenon DEF Gathered, seen, Listing
    <3>8. QED
      BY <3>2, <3>3, <3>6, <3>7, Zenon
  <2>6. ListConsistent'
    <3>1. CASE at' = at \/ at' = Failing
      BY <1>1, <3>1 DEF ListConsistent, Failing, Listing
    <3>2. CASE at' = Listed /\ ~(list.offset + PageSize < Cardinality(Page))
      <4>1. {id \in Page : Rank(id) < Got.offset} = Page
        BY <1>1, <3>2, ListTypes, PageContinues, ZenonT(40)
      <4>2. "revision" \in agreed => Got.ids = Got.base
        BY <2>4, <4>1, Zenon
      <4>3. QED
        BY <1>3, <1>6, <4>2 DEF ListConsistent
    <3>3. QED
      <4>1. \/ at' = at \/ at' = Failing
            \/ at' = Listed /\ ~(list.offset + PageSize < Cardinality(Page))
            \/ list' = Again \/ list' = list
        BY ListPageCases, Zenon
      <4>2. Got # Again /\ Got # list
        <5>1. Got.page = list.page + 1 /\ list.page \in Nat /\ Again.page = 0
          BY <1>1, <2>1, ListTypes DEF Again, NoList
        <5>2. Got.page # list.page /\ Got.page # Again.page
          BY <5>1
        <5>3. QED
          BY <5>2
      <4>3. QED
        BY <1>6, <3>1, <3>2, <4>1, <4>2, Zenon
  <2>7. QED
    BY <1>2, <2>5, <2>6
<1>7. QED
  BY <1>2, <1>4, <1>5, <1>6, ListPageCases, Zenon

LEMMA ListPageStep ==
  ASSUME DirectoryInv, ListPage
  PROVE  DirectoryInv'
<1>1. DirectoryTypeOK'
  <2>1. DirectoryTypeOK /\ list' \in ListType
    BY ListPageList DEF DirectoryInv
  <2>2. at' \in {"idle"} \cup Listing \cup Getting \cup Requests \cup Ended
    BY <2>1, ListPageEnds DEF DirectoryTypeOK, Listing, Getting, Requests, Ended
  <2>3. attempt' = 0 /\ UNCHANGED <<fixed, remoteVars, locals, changes, losses>>
    BY ListPageCases
  <2>4. QED
    BY <2>1, <2>2, <2>3 DEF DirectoryTypeOK, ListType, fixed, remoteVars, locals
<1>2. ListConsistent' /\ Gathered'
  BY ListPageList
<1>3. UNCHANGED <<agreed, flaws, collection, revision, probe, current, stale, created, losses>>
  BY ListPageCases DEF fixed, remoteVars, locals
<1>4. Probed'
  BY <1>3, ListPageEnds DEF DirectoryInv, Probed, Alive, Listing
<1>5. Excluded'
  <2>1. at' = "replace" => "unlisted" \notin flaws
    BY ListPageEnds DEF DirectoryInv, Gathered, Slice, Page, Listing
  <2>2. QED
    BY <1>3, <2>1, ListPageEnds DEF DirectoryInv, Excluded, Alive, Listing, Ttl_
<1>6. Removable'
  <2>1. at = "list2" => current = probe
    BY DEF DirectoryInv, Probed
  <2>2. QED
    BY <1>3, <2>1, ListPageEnds DEF DirectoryInv, Removable, Ended, Listing, Matches
<1>7. QED
  BY <1>1, <1>2, <1>4, <1>5, <1>6 DEF DirectoryInv

\* The parts of the invariant that a step outside the listing leaves alone.
LEMMA ListKept ==
  ASSUME DirectoryInv, UNCHANGED <<fixed, collection, revision>>,
         \/ list' = list /\ (at' = at \/ (at' \notin Listing /\ (at \notin Listing \cup {"cleanup", "failed"} \/ at' \in {"cleanup", "failed"})))
         \/ list' = NoList
  PROVE  list' \in ListType /\ ListConsistent' /\ Gathered'
<1>1. list \in ListType /\ NoList \in ListType
  BY ListTypes DEF DirectoryInv
<1>2. CASE list' = NoList
  BY <1>1, <1>2 DEF ListConsistent, Gathered, NoList
<1>3. CASE list' = list /\ at' = at
  BY <1>1, <1>3 DEF DirectoryInv, ListConsistent, Gathered, fixed, Page, Rank
<1>4. CASE list' = list /\ at' \notin Listing /\ (at \notin Listing \cup {"cleanup", "failed"} \/ at' \in {"cleanup", "failed"})
  BY <1>1, <1>4 DEF DirectoryInv, ListConsistent, Gathered, fixed
<1>5. QED
  BY <1>2, <1>3, <1>4

\* What a record that was read leads to.
LEMMA GetCases ==
  ASSUME DirectoryInv, Get
  PROVE  /\ UNCHANGED <<fixed, remoteVars, created, changes, losses>> /\ attempt' = 0
         /\ \/ /\ at = "get1" /\ at' \in {"failed", "create"} /\ (at' = "failed" <=> probe # Nothing)
               /\ UNCHANGED <<current, stale, list>>
            \/ /\ at = "get5" /\ at' \in {"failed", "passed"} /\ (at' = "failed" <=> probe # Nothing)
               /\ UNCHANGED <<current, stale, list>>
            \/ /\ at \in {"get2", "get3", "get4"} /\ probe # Nothing /\ current' = probe /\ list' = NoList
               /\ stale' = IF at = "get2" THEN probe.etag ELSE stale
               /\ IF Acceptable THEN at' = After ELSE at' = "cleanup"
<1>1. at \in Getting /\ UNCHANGED <<fixed, remoteVars, created, changes, losses>> /\ attempt' = 0
  BY Zenon DEF Get
<1>2. CASE at \in {"get1", "get5"}
  BY <1>1, <1>2 DEF Get
<1>3. CASE at \in {"get2", "get3", "get4"}
  <2>1. probe # Nothing
    BY <1>3 DEF DirectoryInv, Probed, Alive
  <2>2. /\ current' = probe /\ list' = NoList
        /\ stale' = IF at = "get2" THEN probe.etag ELSE stale
        /\ at' = IF probe # Nothing /\ Acceptable THEN After
                 ELSE IF probe # Nothing \/ "etag" \notin agreed THEN "cleanup" ELSE "failed"
    BY <1>3 DEF Get
  <2>3. QED
    BY <1>1, <1>3, <2>1, <2>2, Zenon
<1>4. QED
  BY <1>1, <1>2, <1>3 DEF Getting

LEMMA GetStep ==
  ASSUME DirectoryInv, Get
  PROVE  DirectoryInv'
<1>1. DirectoryTypeOK /\ Probed /\ Excluded /\ Removable
  BY DEF DirectoryInv
<1>2. UNCHANGED <<agreed, flaws, collection, revision, probe, created, changes, losses>> /\ attempt' = 0
  BY GetCases DEF fixed, remoteVars
<1>3. /\ probe \in Records /\ current \in Records /\ revision \in Nat /\ stale \in Nat
  BY <1>1 DEF DirectoryTypeOK
<1>4. CASE at \in {"get1", "get5"}
  <2>1. /\ at' \in {"failed", "create", "passed"} /\ UNCHANGED <<current, stale, list>>
        /\ at' = "failed" <=> probe # Nothing
        /\ at' = "create" => at = "get1"
        /\ at' = "passed" => at = "get5"
    BY <1>4, GetCases
  <2>2. list' \in ListType /\ ListConsistent' /\ Gathered'
    BY <1>2, <1>4, <2>1, ListKept DEF Listing, fixed
  <2>3. DirectoryTypeOK'
    BY <1>1, <1>2, <2>1, <2>2 DEF DirectoryTypeOK, ListType, Listing, Getting, Requests, Ended
  <2>4. Probed'
    BY <1>1, <1>2, <1>4, <2>1 DEF Probed, Alive
  <2>5. Excluded'
    BY <1>1, <1>2, <1>4, <2>1 DEF Excluded, Alive, Ttl_, Probed
  <2>6. Removable'
    BY <1>1, <1>2, <1>4, <2>1 DEF Removable, Probed, Ended, Matches
  <2>7. QED
    BY <2>2, <2>3, <2>4, <2>5, <2>6 DEF DirectoryInv
<1>5. CASE at \in {"get2", "get3", "get4"}
  <2>1. /\ probe # Nothing /\ current' = probe /\ list' = NoList
        /\ stale' = IF at = "get2" THEN probe.etag ELSE stale
        /\ IF Acceptable THEN at' = After ELSE at' = "cleanup"
    BY <1>5, GetCases
  <2>2. /\ at = "get2" /\ Acceptable => at' = "list2" /\ probe.title = "probe" /\ (Ttl_ => probe.ttl)
        /\ at = "get3" /\ Acceptable => at' = (IF "etag" \in agreed THEN "stale" ELSE Renewing) /\ probe.title = "update"
        /\ at = "get4" /\ Acceptable => at' = "delete" /\ probe.lease > current.lease
        /\ ~Acceptable => at' = "cleanup"
    BY <2>1, <1>5 DEF Acceptable, After
  <2>3. list' \in ListType /\ ListConsistent' /\ Gathered'
    BY <1>2, <2>1, ListKept DEF fixed
  <2>4. at' \in {"list2", "stale", "renew", "delete", "cleanup"}
    BY <1>5, <2>2 DEF Renewing
  <2>5. DirectoryTypeOK'
    BY <1>1, <1>2, <1>3, <2>1, <2>3, <2>4 DEF DirectoryTypeOK, ListType, Listing, Getting, Requests, Ended, Records
  <2>6. created
    BY <1>1, <1>5 DEF Probed, Alive
  <2>7. Probed'
    <3>1. at' = "stale" => "etag" \in agreed /\ at = "get3" /\ probe.title = "update"
      BY <1>5, <2>2 DEF Renewing
    <3>2. at' = "list2" => at = "get2" /\ probe.title = "probe"
      BY <1>5, <2>2 DEF Renewing
    <3>3. at' = "stale" => stale < probe.etag
      BY <1>1, <3>1 DEF Probed
    <3>4. QED
      BY <1>1, <1>2, <1>5, <2>1, <2>4, <2>6, <3>1, <3>2, <3>3 DEF Probed, Alive
  <2>8. Excluded'
    <3>1. CASE ~Acceptable
      BY <2>2, <3>1 DEF Excluded, Alive
    <3>2. CASE Acceptable /\ at = "get2"
      <4>1. Ttl_ => "lease" \notin flaws
        BY <1>1, <3>2, <2>2 DEF Probed
      <4>2. QED
        BY <1>2, <2>2, <3>2, <4>1 DEF Excluded, Alive, Ttl_
    <3>3. CASE Acceptable /\ at = "get3"
      <4>1. "unreplaced" \notin flaws
        BY <1>1, <3>3, <2>2 DEF Probed
      <4>2. at' \in {"stale", "renew", "delete"} /\ (at' # "stale" => "etag" \notin agreed)
            /\ (at' = "delete" => ~(Ttl_ /\ "patch" \in agreed))
        BY <2>2, <3>3 DEF Renewing
      <4>3. QED
        BY <1>1, <1>2, <3>3, <4>1, <4>2 DEF Excluded, Alive, Ttl_
    <3>4. CASE Acceptable /\ at = "get4"
      <4>1. "unrenewed" \notin flaws
        BY <1>1, <1>3, <3>4, <2>2 DEF Probed, Records
      <4>2. QED
        BY <1>1, <1>2, <2>2, <3>4, <4>1 DEF Excluded, Alive, Ttl_
    <3>5. QED
      BY <1>5, <3>1, <3>2, <3>3, <3>4
  <2>9. Removable'
    BY <1>1, <1>2, <2>1, <2>4 DEF Removable, Ended, Matches
  <2>10. QED
    BY <2>3, <2>5, <2>7, <2>8, <2>9 DEF DirectoryInv
<1>6. QED
  <2>1. at \in Getting
    BY DEF Get
  <2>2. QED
    BY <1>4, <1>5, <2>1 DEF Getting

\* What the Directory may do to the probe with one request.
LEMMA PutType ==
  ASSUME DirectoryTypeOK, NEW title \in {"none", "probe", "update"}, NEW lease \in Nat, Put(title, lease)
  PROVE  /\ probe' \in Records /\ probe'.title = title /\ probe'.etag = revision + 1 /\ probe'.lease = lease
         /\ probe'.ttl = (Ttl_ /\ "lease" \notin flaws)
         /\ collection' \subseteq Ids /\ revision' = revision + 1 /\ revision + 1 \in Nat /\ probe' # Nothing
<1>1. revision + 1 \in Nat /\ revision + 1 > 0 /\ collection \subseteq Ids /\ Probe \in Ids
  BY DirectoryAssumption DEF DirectoryTypeOK
<1>2. (Ttl_ /\ "lease" \notin flaws) \in BOOLEAN
  BY DEF Ttl_
<1> DEFINE held == Ttl_ /\ "lease" \notin flaws
<1>3. /\ probe' = [title |-> title, etag |-> revision + 1, ttl |-> held, lease |-> lease]
      /\ collection' = collection \cup {Probe} /\ revision' = revision + 1
  BY DEF Put
<1>4. held \in BOOLEAN
  BY <1>2
<1> HIDE DEF held
<1>5. QED
  <2>1. probe' \in Records
    BY <1>1, <1>3, <1>4 DEF Records
  <2>2. probe' # Nothing
    BY <1>1, <1>3 DEF Nothing
  <2>3. QED
    BY <1>1, <1>3, <2>1, <2>2 DEF held

LEMMA ServeTypes ==
  ASSUME DirectoryTypeOK, NEW ok \in BOOLEAN, Serve(ok)
  PROVE  probe' \in Records /\ collection' \subseteq Ids /\ revision' \in Nat /\ revision <= revision'
         /\ at \in Requests
<1>1. probe \in Records /\ revision \in Nat /\ collection \subseteq Ids /\ probe.lease + 1 \in Nat
      /\ probe.title \in {"none", "probe", "update"}
  BY DEF DirectoryTypeOK, Records
<1>2. at \in Requests
  BY DEF Serve, Requests
<1>3. ASSUME Keep PROVE probe' \in Records /\ collection' \subseteq Ids /\ revision' \in Nat /\ revision <= revision'
  BY <1>1, <1>3 DEF Keep, remoteVars
<1>4. ASSUME NEW t \in {"none", "probe", "update"}, NEW l \in Nat, Put(t, l)
      PROVE  probe' \in Records /\ collection' \subseteq Ids /\ revision' \in Nat /\ revision <= revision'
  BY <1>1, <1>4, PutType
<1>5. CASE at = "create"
  BY <1>2, <1>4, <1>5 DEF Serve
<1>6. CASE at = "replace"
  BY <1>2, <1>3, <1>4, <1>6 DEF Serve
<1>7. CASE at = "stale"
  BY <1>2, <1>3, <1>4, <1>7 DEF Serve
<1>8. CASE at = "renew"
  BY <1>1, <1>2, <1>3, <1>4, <1>8 DEF Serve
<1>9. CASE at \in {"delete", "cleanup"}
  <2>1. Keep \/ (probe' = Nothing /\ collection' = collection \ {Probe} /\ revision' = revision + 1)
    BY <1>9 DEF Serve
  <2>2. Nothing \in Records
    BY DEF Nothing, Records
  <2>3. QED
    BY <1>1, <1>2, <1>3, <2>1, <2>2
<1>10. QED
  BY <1>2, <1>5, <1>6, <1>7, <1>8, <1>9 DEF Requests

\* What the answer to each request leads to.
LEMMA WriteCases ==
  ASSUME DirectoryInv, NEW ok \in BOOLEAN, Write(ok)
  PROVE  \/ at = "create" /\ at' = "get2" /\ Put("probe", 1) /\ created'
         \/ at = "replace" /\ at' = "get3" /\ (IF "unreplaced" \in flaws THEN Keep ELSE Put("update", 1))
         \/ at = "stale" /\ at' = "cleanup" /\ Put("probe", 1) /\ "unconditional" \in flaws
         \/ at = "stale" /\ at' = Renewing /\ Keep /\ "unconditional" \notin flaws
         \/ at = "renew" /\ at' = "get4" /\ (IF "unrenewed" \in flaws THEN Keep ELSE Put(probe.title, probe.lease + 1))
         \/ /\ at = "delete" /\ at' = "get5"
            /\ IF "undeleted" \in flaws THEN Keep
               ELSE probe' = Nothing /\ collection' = collection \ {Probe} /\ revision' = revision + 1
         \/ /\ at = "cleanup" /\ at' = "failed"
            /\ \/ Keep /\ probe = Nothing
               \/ Keep /\ "undeleted" \in flaws
               \/ probe' = Nothing /\ collection' = collection \ {Probe} /\ revision' = revision + 1
               \/ Keep /\ ~Matches(current.etag)
<1>1. at \in Requests /\ Probed /\ DirectoryTypeOK
  BY ServeTypes DEF Write, DirectoryInv
<1>2. /\ Serve(ok) /\ created' = (created \/ (at = "create" /\ ok))
      /\ at' = IF at = "stale" THEN IF ok THEN "cleanup" ELSE Renewing
               ELSE IF ok THEN NextStep
               ELSE IF at \in {"delete", "cleanup"} THEN "failed" ELSE Failing
  BY DEF Write
<1>3. CASE at = "create"
  BY <1>2, <1>3 DEF Serve, NextStep
<1>4. CASE at = "replace"
  <2>1. Matches(current.etag)
    BY <1>1, <1>4 DEF Probed, Matches
  <2>2. QED
    BY <1>2, <1>4, <2>1 DEF Serve, NextStep
<1>5. CASE at = "stale"
  <2>1. stale < probe.etag /\ stale \in Nat /\ probe.etag \in Nat /\ "etag" \in agreed
    BY <1>1, <1>5 DEF Probed, DirectoryTypeOK, Records
  <2>2. Matches(stale) <=> "unconditional" \in flaws
    BY <2>1 DEF Matches
  <2>3. ok = Matches(stale) /\ IF ok THEN Put("probe", 1) ELSE Keep
    BY <1>2, <1>5 DEF Serve
  <2>4. CASE ok
    <3>1. Matches(stale)
      BY <2>3, <2>4, Zenon
    <3>2. QED
      BY <1>2, <1>5, <2>2, <2>3, <2>4, <3>1
  <2>5. CASE ~ok
    <3>1. ~Matches(stale)
      BY <2>3, <2>5, Zenon
    <3>2. QED
      BY <1>2, <1>5, <2>2, <2>3, <2>5, <3>1
  <2>6. QED
    BY <2>4, <2>5, Zenon
<1>6. CASE at = "renew"
  BY <1>2, <1>6 DEF Serve, NextStep
<1>7. CASE at = "delete"
  <2>1. Matches(current.etag) /\ probe # Nothing
    BY <1>1, <1>7 DEF Probed, Matches, Alive
  <2>2. /\ ok = (probe = Nothing \/ Matches(current.etag))
        /\ IF ~ok \/ probe = Nothing \/ "undeleted" \in flaws THEN Keep
           ELSE probe' = Nothing /\ collection' = collection \ {Probe} /\ revision' = revision + 1
    BY <1>2, <1>7 DEF Serve
  <2>3. ok
    BY <2>1, <2>2, Zenon
  <2>4. at' = "get5"
    BY <1>2, <1>7, <2>3 DEF NextStep
  <2>5. QED
    BY <1>7, <2>1, <2>2, <2>3, <2>4, Zenon
<1>8. CASE at = "cleanup"
  BY <1>2, <1>8 DEF Serve, NextStep
<1>9. QED
  BY <1>1, <1>3, <1>4, <1>5, <1>6, <1>7, <1>8 DEF Requests

LEMMA WriteStep ==
  ASSUME DirectoryInv, NEW ok \in BOOLEAN, Write(ok)
  PROVE  DirectoryInv'
<1>1. DirectoryTypeOK /\ Probed /\ Excluded /\ Removable /\ ListConsistent
  BY DEF DirectoryInv
<1>2. /\ UNCHANGED <<agreed, flaws, list, attempt, current, stale, changes, losses>>
      /\ created' = (created \/ (at = "create" /\ ok)) /\ Serve(ok)
  BY DEF Write, fixed
<1>3. /\ probe \in Records /\ current \in Records /\ revision \in Nat /\ stale \in Nat
      /\ {attempt, changes, losses} \subseteq Nat /\ created \in BOOLEAN /\ list \in ListType
  BY <1>1, ListTypes DEF DirectoryTypeOK
<1>4. /\ probe' \in Records /\ collection' \subseteq Ids /\ revision' \in Nat /\ revision <= revision'
      /\ at \in Requests
  BY <1>1, <1>2, ServeTypes
<1>5. Renewing \in {"renew", "delete"} /\ (Renewing = "delete" => ~(Ttl_ /\ "patch" \in agreed))
  BY DEF Renewing
<1>6. at' \in {"get2", "get3", "cleanup", "renew", "delete", "get4", "get5", "failed"}
  BY <1>5, WriteCases, Zenon
<1>7. DirectoryTypeOK'
  <2>1. at' \in {"idle"} \cup Listing \cup Getting \cup Requests \cup Ended
    BY <1>6 DEF Listing, Getting, Requests, Ended
  <2>2. created' \in BOOLEAN
    BY <1>2, <1>3
  <2>3. QED
    BY <1>1, <1>2, <1>3, <1>4, <2>1, <2>2 DEF DirectoryTypeOK, ListType
<1>8. ListConsistent' /\ Gathered'
  <2>1. at \notin Listing /\ at' \notin Listing
    BY <1>4, <1>6 DEF Listing, Requests
  <2>2. at = "cleanup" => at' = "failed"
    BY WriteCases
  <2>3. at # "failed"
    BY <1>4 DEF Requests
  <2>4. QED
    BY <1>1, <1>2, <2>1, <2>2, <2>3 DEF ListConsistent, Gathered
<1>9. ASSUME Keep PROVE probe' = probe /\ revision' = revision
  BY <1>9 DEF Keep, remoteVars
<1>10. ASSUME NEW t \in {"none", "probe", "update"}, NEW l \in Nat, Put(t, l)
       PROVE  /\ probe'.title = t /\ probe'.etag = revision + 1 /\ probe'.lease = l
              /\ probe'.ttl = (Ttl_ /\ "lease" \notin flaws)
              /\ revision' = revision + 1 /\ revision + 1 \in Nat /\ probe' # Nothing
  BY <1>1, <1>10, PutType
<1>11. Nothing.etag = 0 /\ probe.lease + 1 \in Nat /\ probe.title \in {"none", "probe", "update"}
       /\ probe.etag \in Nat /\ stale \in Nat
  BY <1>3 DEF Nothing, Records
<1>12. CASE at = "create" /\ at' = "get2" /\ Put("probe", 1) /\ created'
  <2>1. /\ probe'.etag = revision + 1 /\ revision' = revision + 1 /\ probe' # Nothing
        /\ probe'.ttl = (Ttl_ /\ "lease" \notin flaws)
    BY <1>10, <1>12
  <2>2. Probed'
    <3>1. probe'.etag <= revision'
      BY <1>3, <2>1
    <3>2. probe'.ttl <=> Ttl_' /\ "lease" \notin flaws'
      BY <1>2, <2>1, Zenon DEF Ttl_
    <3>3. QED
      BY <1>12, <2>1, <3>1, <3>2 DEF Probed, Alive
  <2>3. Excluded' /\ Removable'
    BY <1>2, <1>12 DEF Excluded, Removable, Alive, Ended
  <2>4. QED
    BY <1>7, <1>8, <2>2, <2>3 DEF DirectoryInv
<1>13. CASE at = "replace" /\ at' = "get3" /\ (IF "unreplaced" \in flaws THEN Keep ELSE Put("update", 1))
  <2>1. /\ probe # Nothing /\ created /\ current = probe /\ probe.title = "probe" /\ stale = probe.etag
        /\ probe.etag <= revision
    BY <1>1, <1>13 DEF Probed, Alive
  <2>2. /\ "unreplaced" \in flaws => probe' = probe /\ revision' = revision
        /\ "unreplaced" \notin flaws => probe'.etag = revision + 1 /\ revision' = revision + 1 /\ probe' # Nothing
    BY <1>9, <1>10, <1>13
  <2>3. Probed'
    <3>1. probe'.etag <= revision' /\ ("unreplaced" \notin flaws => probe.etag < probe'.etag)
      BY <1>3, <1>11, <2>1, <2>2
    <3>2. probe' # Nothing /\ created' /\ current' # Nothing
      BY <1>2, <1>13, <2>1, <2>2
    <3>3. QED
      BY <1>2, <1>13, <2>1, <2>2, <3>1, <3>2 DEF Probed, Alive
  <2>4. Excluded' /\ Removable'
    BY <1>1, <1>2, <1>13 DEF Excluded, Removable, Alive, Ended, Ttl_
  <2>5. QED
    BY <1>7, <1>8, <2>3, <2>4 DEF DirectoryInv
<1>14. CASE at = "stale" /\ at' = "cleanup" /\ Put("probe", 1) /\ "unconditional" \in flaws
  <2>1. probe'.etag = revision + 1 /\ revision' = revision + 1
    BY <1>10, <1>14
  <2>2. Probed' /\ Excluded'
    BY <1>2, <1>3, <1>14, <2>1 DEF Probed, Alive, Excluded
  <2>3. Removable'
    BY <1>2, <1>14 DEF Removable, Ended, Matches
  <2>4. QED
    BY <1>7, <1>8, <2>2, <2>3 DEF DirectoryInv
<1>15. CASE at = "stale" /\ at' = Renewing /\ Keep /\ "unconditional" \notin flaws
  <2>1. probe' = probe /\ revision' = revision /\ at' \in {"renew", "delete"}
        /\ (at' = "delete" => ~(Ttl_ /\ "patch" \in agreed))
    BY <1>5, <1>9, <1>15
  <2>2. Probed'
    BY <1>1, <1>2, <1>15, <2>1 DEF Probed, Alive
  <2>3. Excluded' /\ Removable'
    BY <1>1, <1>2, <1>15, <2>1 DEF Excluded, Removable, Alive, Ended, Ttl_
  <2>4. QED
    BY <1>7, <1>8, <2>2, <2>3 DEF DirectoryInv
<1>16. CASE at = "renew" /\ at' = "get4" /\ (IF "unrenewed" \in flaws THEN Keep ELSE Put(probe.title, probe.lease + 1))
  <2>1. probe # Nothing /\ created /\ current = probe /\ probe.etag <= revision
    BY <1>1, <1>16 DEF Probed, Alive
  <2>2. /\ "unrenewed" \in flaws => probe' = probe /\ revision' = revision
        /\ "unrenewed" \notin flaws => probe'.etag = revision + 1 /\ revision' = revision + 1 /\ probe' # Nothing
    BY <1>9, <1>10, <1>11, <1>16
  <2>3. Probed'
    <3>1. probe'.etag <= revision' /\ ("unrenewed" \notin flaws => probe.etag < probe'.etag)
      BY <1>3, <1>11, <2>1, <2>2
    <3>2. probe' # Nothing /\ created' /\ current' # Nothing
      BY <1>2, <1>16, <2>1, <2>2
    <3>3. QED
      BY <1>2, <1>16, <2>1, <2>2, <3>1, <3>2 DEF Probed, Alive
  <2>4. Excluded' /\ Removable'
    BY <1>1, <1>2, <1>16 DEF Excluded, Removable, Alive, Ended, Ttl_
  <2>5. QED
    BY <1>7, <1>8, <2>3, <2>4 DEF DirectoryInv
<1>17. CASE /\ at = "delete" /\ at' = "get5"
            /\ IF "undeleted" \in flaws THEN Keep
               ELSE probe' = Nothing /\ collection' = collection \ {Probe} /\ revision' = revision + 1
  <2>1. /\ probe # Nothing /\ probe.etag <= revision
        /\ "undeleted" \in flaws => probe' = probe /\ revision' = revision
        /\ "undeleted" \notin flaws => probe' = Nothing
    BY <1>1, <1>9, <1>17 DEF Probed, Alive
  <2>2. Probed'
    BY <1>2, <1>3, <1>4, <1>11, <1>17, <2>1 DEF Probed, Alive
  <2>3. Excluded' /\ Removable'
    BY <1>1, <1>2, <1>17 DEF Excluded, Removable, Alive, Ended, Ttl_
  <2>4. QED
    BY <1>7, <1>8, <2>2, <2>3 DEF DirectoryInv
<1>18. CASE /\ at = "cleanup" /\ at' = "failed"
            /\ \/ Keep /\ probe = Nothing
               \/ Keep /\ "undeleted" \in flaws
               \/ probe' = Nothing /\ collection' = collection \ {Probe} /\ revision' = revision + 1
               \/ Keep /\ ~Matches(current.etag)
  <2>1. /\ probe.etag <= revision
        /\ \/ probe' = Nothing
           \/ "undeleted" \in flaws /\ probe' = probe
           \/ ~Matches(current.etag) /\ probe' = probe
    BY <1>1, <1>9, <1>18 DEF Probed
  <2>2. Probed' /\ Excluded'
    BY <1>2, <1>3, <1>4, <1>11, <1>18, <2>1 DEF Probed, Alive, Excluded
  <2>3. Removable'
    BY <1>1, <1>2, <1>18, <2>1 DEF Removable, Ended
  <2>4. QED
    BY <1>7, <1>8, <2>2, <2>3 DEF DirectoryInv
<1>19. QED
  BY <1>12, <1>13, <1>14, <1>15, <1>16, <1>17, <1>18, WriteCases, ZenonT(40)

\* A request or its answer is lost; the Directory may have served it.
LEMMA LoseCases ==
  ASSUME DirectoryInv, Lose
  PROVE  /\ at \notin {"idle", "passed", "failed"} /\ UNCHANGED <<agreed, flaws, list, current, stale, created, changes>>
         /\ losses' = losses + 1 /\ attempt' \in Nat
         /\ probe' \in Records /\ collection' \subseteq Ids /\ revision' \in Nat /\ revision <= revision'
         /\ probe'.etag <= revision'
         /\ \/ at' = at /\ at \in Listing \cup Getting /\ UNCHANGED <<collection, revision, probe>>
            \/ at' \in {"failed", "cleanup"} /\ (at \in Listing => UNCHANGED <<collection, revision>>)
<1>1. /\ DirectoryTypeOK /\ Probed /\ probe \in Records /\ revision \in Nat /\ collection \subseteq Ids
      /\ attempt \in Nat /\ attempt + 1 \in Nat /\ probe.etag \in Nat
  BY DEF DirectoryInv, DirectoryTypeOK, Records
<1>2. /\ at \notin {"idle", "passed", "failed"} /\ UNCHANGED <<agreed, flaws, list, current, stale, created, changes>>
      /\ losses' = losses + 1
      /\ Keep \/ (at \notin Listing \cup Getting /\ \E ok \in BOOLEAN : Serve(ok))
      /\ \/ at \in Listing \cup Getting /\ attempt' = attempt + 1 /\ at' = at
         \/ attempt' = 0 /\ at' \in {"failed", "cleanup"}
  BY DEF Lose, Ended, Failing, fixed, locals
<1>3. CASE Keep
  BY <1>1, <1>2, <1>3 DEF Keep, remoteVars, Probed
<1>4. ASSUME at \notin Listing \cup Getting, NEW ok \in BOOLEAN, Serve(ok) PROVE probe'.etag <= revision'
  <2>1. ASSUME Keep PROVE probe'.etag <= revision'
    BY <1>1, <2>1 DEF Keep, remoteVars, Probed
  <2>2. ASSUME NEW t \in {"none", "probe", "update"}, NEW l \in Nat, Put(t, l) PROVE probe'.etag <= revision'
    <3>1. probe'.etag = revision + 1 /\ revision' = revision + 1
      BY <1>1, <2>2, PutType
    <3>2. QED
      BY <1>1, <3>1
  <2>3. probe.title \in {"none", "probe", "update"} /\ probe.lease + 1 \in Nat /\ Nothing.etag = 0
    BY <1>1 DEF Records, Nothing
  <2>4. CASE at \in {"create", "replace", "stale", "renew"}
    BY <1>4, <2>1, <2>2, <2>3, <2>4 DEF Serve
  <2>5. CASE at \in {"delete", "cleanup"}
    <3>1. Keep \/ (probe' = Nothing /\ revision' = revision + 1)
      BY <1>4, <2>5 DEF Serve
    <3>2. QED
      BY <1>1, <2>1, <2>3, <3>1
  <2>6. QED
    BY <1>1, <1>4, <2>4, <2>5, ServeTypes DEF Requests
<1>5. CASE at \notin Listing \cup Getting /\ \E ok \in BOOLEAN : Serve(ok)
  <2>1. probe' \in Records /\ collection' \subseteq Ids /\ revision' \in Nat /\ revision <= revision'
        /\ probe'.etag <= revision'
    BY <1>1, <1>4, <1>5, ServeTypes
  <2>2. at \notin Listing
    BY <1>5
  <2>3. QED
    BY <1>1, <1>2, <1>5, <2>1, <2>2
<1>6. QED
  BY <1>2, <1>3, <1>5

LEMMA LoseStep ==
  ASSUME DirectoryInv, Lose
  PROVE  DirectoryInv'
<1>1. DirectoryTypeOK /\ Probed /\ Excluded /\ Removable /\ list \in ListType /\ ListConsistent /\ Gathered
  BY ListTypes DEF DirectoryInv
<1>2. losses + 1 \in Nat /\ losses + 1 # 0
  BY <1>1 DEF DirectoryTypeOK
<1>3. DirectoryTypeOK'
  <2>1. at' \in {"idle"} \cup Listing \cup Getting \cup Requests \cup Ended
    BY <1>1, LoseCases DEF DirectoryTypeOK, Requests, Ended
  <2>2. QED
    BY <1>1, <1>2, <2>1, LoseCases DEF DirectoryTypeOK
<1>4. CASE at' = at /\ UNCHANGED <<collection, revision, probe>>
  <2>1. ListConsistent' /\ Gathered'
    BY <1>1, <1>4, LoseCases DEF ListConsistent, Gathered, Page, Rank
  <2>2. Probed'
    BY <1>1, <1>4, LoseCases DEF Probed, Alive, Ttl_
  <2>3. Excluded'
    BY <1>1, <1>4, LoseCases DEF Excluded, Alive, Ttl_
  <2>4. Removable'
    BY <1>2, LoseCases DEF Removable
  <2>5. QED
    BY <1>3, <2>1, <2>2, <2>3, <2>4 DEF DirectoryInv
<1>5. CASE at' \in {"failed", "cleanup"}
  <2>1. ListConsistent' /\ Gathered'
    BY <1>1, <1>5 DEF ListConsistent, Gathered, Listing
  <2>2. Probed' /\ Excluded'
    BY <1>1, <1>5, LoseCases DEF Probed, Excluded, Alive
  <2>3. Removable'
    BY <1>2, LoseCases DEF Removable
  <2>4. QED
    BY <1>3, <2>1, <2>2, <2>3 DEF DirectoryInv
<1>6. QED
  BY <1>4, <1>5, LoseCases

\* Another client's change makes what was listed so far out of date.
LEMMA OthersStep ==
  ASSUME DirectoryInv, Others
  PROVE  DirectoryInv'
<1>1. DirectoryTypeOK /\ Probed /\ Excluded /\ Removable /\ list \in ListType /\ ListConsistent /\ Gathered
  BY ListTypes DEF DirectoryInv
<1>2. /\ changes' = changes + 1 /\ revision' = revision + 1
      /\ UNCHANGED <<agreed, flaws, probe, at, list, attempt, current, stale, created, losses>>
      /\ \E id \in Ids \ {Probe} : collection' = SymDiff(collection, {id})
  BY DEF Others, fixed, locals
<1>3. revision \in Nat /\ changes \in Nat /\ probe.etag \in Nat
  BY <1>1 DEF DirectoryTypeOK, Records
<1>4. collection' \subseteq Ids
  BY <1>1, <1>2 DEF SymDiff, DirectoryTypeOK
<1>5. DirectoryTypeOK'
  BY <1>1, <1>2, <1>3, <1>4 DEF DirectoryTypeOK
<1>6. Gathered'
  <2>1. list.page \in Nat /\ list.revision \in Int
    BY <1>1 DEF ListType
  <2>2. at \in Listing /\ list.page > 0 => list.revision \in 0..(revision + 1) /\ list.revision # revision + 1
    BY <1>1, <1>3, <2>1 DEF Gathered
  <2>3. QED
    BY <1>1, <1>2, <2>2 DEF Gathered
<1>7. ListConsistent'
  BY <1>1, <1>2 DEF ListConsistent
<1>8. Probed'
  BY <1>1, <1>2, <1>3 DEF Probed, Alive, Ttl_
<1>9. Excluded' /\ Removable'
  BY <1>1, <1>2 DEF Excluded, Removable, Alive, Ttl_, Matches
<1>10. QED
  BY <1>5, <1>6, <1>7, <1>8, <1>9 DEF DirectoryInv

LEMMA RequestStep ==
  ASSUME DirectoryInv, Request
  PROVE  DirectoryInv'
  BY ListPageStep, GetStep, WriteStep, LoseStep DEF Request

\* The preflight begins.
LEMMA PreflightStep ==
  ASSUME DirectoryInv, Preflight
  PROVE  DirectoryInv'
<1>1. DirectoryTypeOK /\ Probed /\ Excluded /\ Removable /\ NoList \in ListType
  BY ListTypes DEF DirectoryInv
<1>2. /\ at = "idle" /\ at' = "list1" /\ list' = NoList
      /\ UNCHANGED <<agreed, flaws, collection, revision, probe, attempt, current, stale, created, changes, losses>>
  BY DEF Preflight, fixed, remoteVars, locals
<1>3. DirectoryTypeOK'
  BY <1>1, <1>2 DEF DirectoryTypeOK, ListType, Listing
<1>4. ListConsistent' /\ Gathered'
  BY <1>2, ListKept DEF fixed, DirectoryInv
<1>5. Probed' /\ Excluded' /\ Removable'
  BY <1>1, <1>2 DEF Probed, Excluded, Removable, Alive, Ended
<1>6. QED
  BY <1>3, <1>4, <1>5 DEF DirectoryInv

\* What the process knew is forgotten when it ends; a preflight that was cut
\* off counts as a lost request.
Forgets ==
  /\ at' = "idle" /\ list' = NoList /\ attempt' = 0 /\ current' = Nothing /\ stale' = 0 /\ created' = FALSE
  /\ UNCHANGED <<agreed, flaws, collection, revision, probe, changes>>
LEMMA ForgetsStep ==
  ASSUME DirectoryInv, Forgets,
         losses' = losses + 1 \/ (losses' = losses /\ at \in Ended \cup {"idle"})
  PROVE  DirectoryInv'
<1>1. DirectoryTypeOK /\ Probed /\ Excluded /\ Removable /\ NoList \in ListType
  BY ListTypes DEF DirectoryInv
<1>2. losses \in Nat /\ losses + 1 \in Nat /\ losses + 1 # 0 /\ losses' \in Nat
  BY <1>1 DEF DirectoryTypeOK
<1>3. Nothing \in Records
  BY DEF Nothing, Records
<1>4. DirectoryTypeOK'
  <2>1. list' \in ListType /\ current' \in Records /\ probe' \in Records /\ at' = "idle"
    BY <1>1, <1>3, Zenon DEF DirectoryTypeOK, Forgets
  <2>2. /\ agreed' \subseteq {"etag", "ttl", "patch", "roundtrip", "revision"} /\ collection' \subseteq Ids
        /\ created' \in BOOLEAN /\ attempt' \in Nat /\ stale' \in Nat /\ changes' \in Nat /\ revision' \in Nat
    BY <1>1 DEF DirectoryTypeOK, Forgets
  <2>3. QED
    BY <1>2, <2>1, <2>2 DEF DirectoryTypeOK, ListType
<1>5. ListConsistent' /\ Gathered'
  BY ListKept DEF fixed, DirectoryInv, Forgets
<1>6. Probed' /\ Excluded'
  BY <1>1 DEF Probed, Excluded, Alive, Forgets
<1>7. Removable'
  BY <1>1, <1>2 DEF Removable, Forgets, Ended
<1>8. QED
  BY <1>4, <1>5, <1>6, <1>7 DEF DirectoryInv

LEMMA DirectorySame ==
  ASSUME DirectoryInv, UNCHANGED directoryVars
  PROVE  DirectoryInv'
<1>1. UNCHANGED <<agreed, flaws, collection, revision, probe, at, list, attempt, current, stale, created, changes, losses>>
  BY DEF directoryVars
<1>2. DirectoryTypeOK'
  BY <1>1 DEF DirectoryInv, DirectoryTypeOK
<1>3. ListConsistent' /\ Gathered'
  BY <1>1 DEF DirectoryInv, ListConsistent, Gathered, Page, Rank
<1>4. Probed'
  BY <1>1 DEF DirectoryInv, Probed, Ttl_
<1>5. Excluded' /\ Removable'
  BY <1>1 DEF DirectoryInv, Excluded, Removable, Ttl_, Matches
<1>6. QED
  BY <1>2, <1>3, <1>4, <1>5 DEF DirectoryInv

-----------------------------------------------------------------------------
JobType == [stage : {"idle", "reconcile", "begin", "hosted"} \cup Active, bundle : Bundles, rev : Nat, left : Seq(Docs)]
Move(s, stage, bundle, rev, left) ==
  job' = [job EXCEPT ![s] = [stage |-> stage, bundle |-> bundle, rev |-> rev, left |-> left]]

\* A move of one publication leaves the other one alone.
LEMMA Moves ==
  ASSUME GatewayTypeOK, NEW s \in Slots, NEW j \in JobType, job' = [job EXCEPT ![s] = j]
  PROVE  job' \in [Slots -> JobType] /\ job'[s] = j /\ \A o \in Slots \ {s} : job'[o] = job[o]
  BY DEF GatewayTypeOK, JobType

LEMMA JobShapes ==
  ASSUME GatewayTypeOK, NEW s \in Slots
  PROVE  /\ job \in [Slots -> JobType] /\ job[s] \in JobType /\ NoJob \in JobType
         /\ job[s].rev \in Nat /\ job[s].bundle \in Bundles /\ job[s].left \in Seq(Docs)
         /\ \A x \in {"check", "write", "save"} : [job EXCEPT ![s].stage = x] =
              [job EXCEPT ![s] = [stage |-> x, bundle |-> job[s].bundle, rev |-> job[s].rev, left |-> job[s].left]]
         /\ \A x \in {"check", "hosted"}, l \in Seq(Docs) : [job EXCEPT ![s].left = l, ![s].stage = x] =
              [job EXCEPT ![s] = [stage |-> x, bundle |-> job[s].bundle, rev |-> job[s].rev, left |-> l]]
<1>1. job \in [Slots -> JobType] /\ NoJob \in JobType
  <2>1. job \in [Slots -> JobType]
    BY DEF GatewayTypeOK, JobType
  <2>2. <<>> \in Seq(Docs)
    OBVIOUS
  <2>3. NoJob \in JobType
    BY <2>2 DEF NoJob, JobType, Bundles
  <2>4. QED
    BY <2>1, <2>3
<1>2. job[s] \in JobType
  BY <1>1
<1>3. job[s].rev \in Nat /\ job[s].bundle \in Bundles /\ job[s].left \in Seq(Docs)
  BY <1>2 DEF JobType
<1>4. ASSUME NEW x PROVE [job[s] EXCEPT !.stage = x] =
        [stage |-> x, bundle |-> job[s].bundle, rev |-> job[s].rev, left |-> job[s].left]
  BY <1>2 DEF JobType
<1>5. ASSUME NEW x, NEW l PROVE [job[s] EXCEPT !.left = l, !.stage = x] =
        [stage |-> x, bundle |-> job[s].bundle, rev |-> job[s].rev, left |-> l]
  <2> DEFINE r == [job[s] EXCEPT !.left = l]
  <2>1. r = [stage |-> job[s].stage, bundle |-> job[s].bundle, rev |-> job[s].rev, left |-> l]
    BY <1>2 DEF JobType
  <2>2. [r EXCEPT !.stage = x] = [stage |-> x, bundle |-> job[s].bundle, rev |-> job[s].rev, left |-> l]
    <3>1. ASSUME NEW a, NEW b, NEW c
          PROVE  [[stage |-> a, bundle |-> b, rev |-> c, left |-> l] EXCEPT !.stage = x]
                   = [stage |-> x, bundle |-> b, rev |-> c, left |-> l]
      OBVIOUS
    <3> HIDE DEF r
    <3>2. QED
      BY <2>1, <3>1
  <2>3. [job[s] EXCEPT !.left = l, !.stage = x] = [r EXCEPT !.stage = x]
    OBVIOUS
  <2>4. QED
    BY <2>2, <2>3, Zenon
<1>6. ASSUME NEW x PROVE [job EXCEPT ![s].stage = x] = [job EXCEPT ![s] = [job[s] EXCEPT !.stage = x]]
  BY <1>1, <1>2 DEF JobType
<1>7. ASSUME NEW x, NEW l PROVE [job EXCEPT ![s].left = l, ![s].stage = x]
        = [job EXCEPT ![s] = [job[s] EXCEPT !.left = l, !.stage = x]]
  BY <1>1, <1>2 DEF JobType
<1>8. \A x \in {"check", "write", "save"} : [job EXCEPT ![s].stage = x] =
              [job EXCEPT ![s] = [stage |-> x, bundle |-> job[s].bundle, rev |-> job[s].rev, left |-> job[s].left]]
  BY <1>4, <1>6, Zenon
<1>9. \A x \in {"check", "hosted"}, l \in Seq(Docs) : [job EXCEPT ![s].left = l, ![s].stage = x] =
              [job EXCEPT ![s] = [stage |-> x, bundle |-> job[s].bundle, rev |-> job[s].rev, left |-> l]]
  <2> TAKE x \in {"check", "hosted"}, l \in Seq(Docs)
  <2>1. [job EXCEPT ![s].left = l, ![s].stage = x] = [job EXCEPT ![s] = [job[s] EXCEPT !.left = l, !.stage = x]]
    BY <1>7
  <2>2. [job[s] EXCEPT !.left = l, !.stage = x] =
          [stage |-> x, bundle |-> job[s].bundle, rev |-> job[s].rev, left |-> l]
    BY <1>5
  <2>3. QED
    BY <2>1, <2>2, Zenon
<1>10. QED
  BY <1>1, <1>2, <1>3, <1>8, <1>9, Zenon

\* Where a publication can be in its documents.
LEMMA Documented ==
  /\ \A v \in Nat : ModelOf(v) \in {"m1", "m2"} /\ Documents("models", v) = <<ModelOf(v)>>
  /\ \A v \in Nat : Documents("things", v) \in Lefts(v) /\ Documents("things", v) \in Seq(Docs)
  /\ \A v \in Nat : Head(Documents("things", v)) = "t1"
  /\ \A v \in Nat : \A l \in Lefts(v) :
       /\ Head(l) \in {"t1", "t2", "index"} /\ l # <<>>
       /\ Tail(l) = <<>> <=> Head(l) = "index"
       /\ Tail(l) # <<>> => Tail(l) \in Lefts(v) /\ Head(Tail(l)) \in {"t2", "index"}
       /\ Head(l) = "t2" => v = 1 /\ Head(Tail(l)) = "index"
       /\ v = 1 /\ Head(l) = "t1" => Head(Tail(l)) = "t2"
<1>1. \A v \in Nat : ModelOf(v) \in {"m1", "m2"} /\ Documents("models", v) = <<ModelOf(v)>>
  BY DEF ModelOf, Documents
<1>2. Append(<<"t1", "t2">>, "index") = <<"t1", "t2", "index">> /\ Append(<<"t1">>, "index") = <<"t1", "index">>
  <2>1. <<"t1", "t2">> \in Seq(Docs) /\ <<"t1">> \in Seq(Docs) /\ "index" \in Docs
        /\ <<"t1", "t2", "index">> \in Seq(Docs) /\ <<"t1", "index">> \in Seq(Docs)
    BY DEF Docs
  <2> DEFINE a == Append(<<"t1", "t2">>, "index")
             b == Append(<<"t1">>, "index")
  <2>2. a \in Seq(Docs) /\ Len(a) = 3 /\ a[1] = "t1" /\ a[2] = "t2" /\ a[3] = "index"
    BY <2>1
  <2>3. b \in Seq(Docs) /\ Len(b) = 2 /\ b[1] = "t1" /\ b[2] = "index"
    BY <2>1
  <2> HIDE DEF a, b
  <2>4. a = <<"t1", "t2", "index">>
    BY <2>1, <2>2, SeqEqual
  <2>5. b = <<"t1", "index">>
    BY <2>1, <2>3, SeqEqual
  <2>6. QED
    BY <2>4, <2>5 DEF a, b
<1>3. \A v \in Nat : Documents("things", v) = IF v = 1 THEN <<"t1", "t2", "index">> ELSE <<"t1", "index">>
  BY <1>2 DEF Documents, Things
<1>4. /\ Head(<<"t1", "t2", "index">>) = "t1" /\ Tail(<<"t1", "t2", "index">>) = <<"t2", "index">>
      /\ Head(<<"t2", "index">>) = "t2" /\ Tail(<<"t2", "index">>) = <<"index">>
      /\ Head(<<"t1", "index">>) = "t1" /\ Tail(<<"t1", "index">>) = <<"index">>
      /\ Head(<<"index">>) = "index" /\ Tail(<<"index">>) = <<>>
      /\ <<"t1", "t2", "index">> # <<>> /\ <<"t2", "index">> # <<>> /\ <<"t1", "index">> # <<>> /\ <<"index">> # <<>>
  OBVIOUS
<1>5. <<"t1", "t2", "index">> \in Seq(Docs) /\ <<"t1", "index">> \in Seq(Docs)
  BY DEF Docs
<1>6. \A v \in Nat : /\ Documents("things", v) \in Lefts(v) /\ Documents("things", v) \in Seq(Docs)
                     /\ Head(Documents("things", v)) = "t1"
  BY <1>3, <1>4, <1>5 DEF Lefts
<1>7. ASSUME NEW v \in Nat, NEW l \in Lefts(v)
      PROVE  /\ Head(l) \in {"t1", "t2", "index"} /\ l # <<>>
             /\ Tail(l) = <<>> <=> Head(l) = "index"
             /\ Tail(l) # <<>> => Tail(l) \in Lefts(v) /\ Head(Tail(l)) \in {"t2", "index"}
             /\ Head(l) = "t2" => v = 1 /\ Head(Tail(l)) = "index"
             /\ v = 1 /\ Head(l) = "t1" => Head(Tail(l)) = "t2"
  <2>1. CASE l = <<"index">>
    BY <1>4, <2>1, Zenon
  <2>2. CASE l = <<"t2", "index">> /\ v = 1
    <3>1. <<"index">> \in Lefts(v)
      BY DEF Lefts
    <3>2. QED
      BY <1>4, <2>2, <3>1
  <2>3. CASE l = <<"t1", "index">> /\ v # 1
    <3>1. <<"index">> \in Lefts(v)
      BY DEF Lefts
    <3>2. QED
      BY <1>4, <2>3, <3>1
  <2>4. CASE l = <<"t1", "t2", "index">> /\ v = 1
    <3>1. <<"t2", "index">> \in Lefts(v)
      BY <2>4 DEF Lefts
    <3>2. QED
      BY <1>4, <2>4, <3>1
  <2>5. QED
    BY <2>1, <2>2, <2>3, <2>4 DEF Lefts
<1>8. QED
  BY <1>1, <1>6, <1>7

\* The document a batch is at.
LEMMA AtDocument ==
  ASSUME GatewayTypeOK, NEW s \in Slots, Placed(job[s]), job[s].stage \in {"begin"} \cup Active
  PROVE  LET d == Head(job[s].left)  b == job[s].bundle IN
         /\ d \in Docs /\ BundleOf(d) = b /\ b \in Bundles /\ b \in Owned /\ job[s].left # <<>>
         /\ Hash(d, job[s].rev) \in Nat /\ Hash(d, job[s].rev) # 0 /\ job[s].rev # 0
         /\ b = "models" => job[s].left = <<ModelOf(job[s].rev)>> /\ d = ModelOf(job[s].rev) /\ Tail(job[s].left) = <<>>
         /\ b = "things" => job[s].left \in Lefts(job[s].rev)
         /\ Tail(job[s].left) \in Seq(Docs) /\ job[s].left \in Seq(Docs)
<1>1. job[s].rev \in Nat /\ job[s].bundle \in Bundles /\ job[s].left \in Seq(Docs)
  BY JobShapes
<1>2. job[s].stage \notin {"idle", "reconcile", "hosted"}
  BY DEF Active
<1>3. CASE job[s].rev # 0 /\ job[s].bundle = "models" /\ job[s].left = <<ModelOf(job[s].rev)>>
  <2>1. ModelOf(job[s].rev) \in {"m1", "m2"}
    BY <1>1, Documented
  <2>2. Head(<<ModelOf(job[s].rev)>>) = ModelOf(job[s].rev) /\ Tail(<<ModelOf(job[s].rev)>>) = <<>>
        /\ <<ModelOf(job[s].rev)>> # <<>>
    OBVIOUS
  <2>3. QED
    BY <1>1, <1>3, <2>1, <2>2 DEF Docs, BundleOf, Bundles, Owned, Hash
<1>4. CASE job[s].rev # 0 /\ job[s].bundle = "things" /\ job[s].left \in Lefts(job[s].rev)
  <2>1. Head(job[s].left) \in {"t1", "t2", "index"} /\ job[s].left # <<>>
    BY <1>1, <1>4, Documented
  <2>2. Tail(job[s].left) \in Seq(Docs)
    BY <1>1, <2>1
  <2>3. QED
    BY <1>1, <1>4, <2>1, <2>2 DEF Docs, BundleOf, Bundles, Owned, Hash
<1>5. QED
  BY <1>2, <1>3, <1>4 DEF Placed, NoJob

\* A document on disk stays there, so what was written stays written.
LEMMA WrittenKept ==
  ASSUME NEW j \in JobType, Placed(j), NEW on, NEW on2, Written(j, on),
         \A d \in Docs : on[d] # 0 => on2[d] # 0
  PROVE  Written(j, on2)
<1>1. ModelOf(j.rev) \in Docs /\ "t1" \in Docs /\ "t2" \in Docs
  BY Documented DEF Docs, JobType
<1>2. j.stage = "save" => Head(j.left) \in Docs
  <2>1. SUFFICES ASSUME j.stage = "save" PROVE Head(j.left) \in Docs
    OBVIOUS
  <2>2. CASE j.left = <<ModelOf(j.rev)>>
    <3>1. Head(<<ModelOf(j.rev)>>) = ModelOf(j.rev)
      OBVIOUS
    <3>2. QED
      BY <1>1, <2>2, <3>1
  <2>3. CASE j.left \in Lefts(j.rev)
    <3>1. Head(j.left) \in {"t1", "t2", "index"}
      BY <2>3, Documented DEF JobType
    <3>2. QED
      BY <3>1 DEF Docs
  <2>4. QED
    BY <2>1, <2>2, <2>3 DEF Placed, NoJob
<1>3. QED
  BY <1>1, <1>2 DEF Written

LEMMA EntrySet ==
  ASSUME NEW f \in [Owned -> [Docs -> Hashes]], NEW b \in Owned, NEW d \in Docs, NEW h \in Hashes
  PROVE  /\ [f EXCEPT ![b][d] = h] \in [Owned -> [Docs -> Hashes]]
         /\ \A b2 \in Owned, d2 \in Docs : [f EXCEPT ![b][d] = h][b2][d2] = IF b2 = b /\ d2 = d THEN h ELSE f[b2][d2]
  OBVIOUS

LEMMA NoJobPlaced ==
  /\ Placed(NoJob) /\ \A on : Written(NoJob, on)
  /\ NoJob.stage = "idle" /\ "idle" \notin Active /\ NoJob.stage # "save"
  BY DEF Placed, Written, NoJob, Active

\* The named parts of the state that Files is about, and when it stays.
filesView == <<job, disk, manifest, orphaned, entries, opened>>
LEMMA FilesSame ==
  ASSUME FilesInv, UNCHANGED filesView
  PROVE  FilesInv'
<1>1. UNCHANGED <<job, disk, manifest, orphaned, entries, opened>>
  BY DEF filesView
<1>2. Passed' /\ Alone'
  BY <1>1 DEF FilesInv, Passed, Alone
<1>3. Current'
  BY <1>1 DEF FilesInv, Current, Saving
<1>4. FilesConsistent'
  BY <1>1 DEF FilesInv, FilesConsistent, IndexBacked, ManifestComplete
<1>5. QED
  BY <1>2, <1>3, <1>4 DEF FilesInv

LEMMA PassedStep ==
  ASSUME GatewayTypeOK, Passed, NEW s \in Slots, NEW j \in JobType, job' = [job EXCEPT ![s] = j],
         Placed(j), Written(j, disk'), \A d \in Docs : disk[d] # 0 => disk'[d] # 0
  PROVE  Passed'
<1>1. job' \in [Slots -> JobType] /\ job'[s] = j /\ \A o \in Slots \ {s} : job'[o] = job[o]
  BY Moves
<1>2. ASSUME NEW o \in Slots PROVE Placed(job'[o]) /\ Written(job'[o], disk')
  <2>1. CASE o = s
    BY <1>1, <2>1
  <2>2. CASE o # s
    <3>1. job'[o] = job[o] /\ job[o] \in JobType /\ Placed(job[o]) /\ Written(job[o], disk)
      BY <1>1, <2>2, JobShapes DEF Passed
    <3>2. Written(job[o], disk')
      BY <3>1, WrittenKept
    <3>3. QED
      BY <3>1, <3>2
  <2>3. QED
    BY <2>1, <2>2
<1>3. QED
  BY <1>2 DEF Passed

\* A publication leaves the work on a bundle, without having changed anything.
LEMMA LeavesStep ==
  ASSUME GatewayTypeOK, FilesInv, NEW s \in Slots, NEW j \in JobType, job' = [job EXCEPT ![s] = j],
         j.stage \notin Active, Placed(j), Written(j, disk), job[s].stage # "save",
         UNCHANGED <<disk, manifest, orphaned, entries, opened>>
  PROVE  FilesInv'
<1>1. job' \in [Slots -> JobType] /\ job'[s] = j /\ \A o \in Slots \ {s} : job'[o] = job[o]
  BY Moves
<1>2. Passed'
  <2>1. Passed /\ Written(j, disk')
    BY DEF FilesInv
  <2>2. QED
    BY <2>1, PassedStep
<1>3. \A o \in Slots : job'[o].stage \in Active => job'[o] = job[o]
  BY <1>1
<1>4. Alone'
  BY <1>3 DEF FilesInv, Alone
<1>5. \A o \in Slots : job'[o].stage = "save" => job'[o] = job[o]
  BY <1>3 DEF Active
<1>6. \A d : Saving(d) => Saving(d)'
  BY <1>1 DEF Saving
<1>7. Current'
  <2>1. Current
    BY DEF FilesInv
  <2>2. \A o \in Slots : job'[o].stage = "save" =>
          disk'[Head(job'[o].left)] \in {Edited, entries'[job'[o].bundle][Head(job'[o].left)]}
    BY <1>5, <2>1 DEF Current
  <2>3. \A d \in Docs \ orphaned' :
          opened'[BundleOf(d)] = "open" => disk'[d] \in {0, Edited, entries'[BundleOf(d)][d]} \/ Saving(d)'
    BY <1>6, <2>1 DEF Current
  <2>4. QED
    BY <2>2, <2>3 DEF Current
<1>8. FilesConsistent'
  <2>1. IndexBacked /\ ManifestComplete
    BY DEF FilesInv, FilesConsistent
  <2>2. IndexBacked'
    BY <2>1 DEF IndexBacked
  <2>3. \A d \in Docs \ orphaned' : disk'[d] \in {0, Edited, manifest'[BundleOf(d)][d]} \/ Saving(d)'
    BY <1>6, <2>1 DEF ManifestComplete, Saving
  <2>4. QED
    BY <2>2, <2>3 DEF FilesConsistent, ManifestComplete, Saving
<1>9. QED
  BY <1>2, <1>4, <1>7, <1>8 DEF FilesInv

LEMMA Idled ==
  ASSUME GatewayTypeOK, FilesInv, NEW s \in Slots, job' = [job EXCEPT ![s] = NoJob], job[s].stage # "save",
         UNCHANGED <<disk, manifest, orphaned, entries, opened>>
  PROVE  FilesInv'
<1>1. NoJob \in JobType /\ NoJob.stage \notin Active /\ Placed(NoJob) /\ Written(NoJob, disk)
  BY JobShapes, NoJobPlaced
<1>2. QED
  BY <1>1, LeavesStep

\* What opening the files of a bundle changes.
LEMMA LockChanges ==
  ASSUME GatewayTypeOK, NEW b \in Owned, Lock(b)
  PROVE  /\ opened' \in [Owned -> {"none", "open", "failed"}] /\ opened'[b] \in {"open", "failed"}
         /\ \A c \in Owned \ {b} : opened'[c] = opened[c] /\ entries'[c] = entries[c]
         /\ opened'[b] = "open" => entries'[b] = manifest[b]
         /\ entries' \in [Owned -> [Docs -> Hashes]] /\ locked' \subseteq Owned /\ known' \in [Owned -> BOOLEAN]
<1>0. /\ opened \in [Owned -> {"none", "open", "failed"}] /\ entries \in [Owned -> [Docs -> Hashes]]
      /\ locked \subseteq Owned /\ manifest[b] \in [Docs -> Hashes] /\ known \in [Owned -> BOOLEAN]
  BY DEF GatewayTypeOK
<1>1. CASE b \in locked
  BY <1>0, <1>1 DEF Lock
<1>2. CASE b \notin locked
  <2>1. /\ opened' = [opened EXCEPT ![b] = "open"] /\ locked' = locked \cup {b}
        /\ entries' = [entries EXCEPT ![b] = manifest[b]] /\ known' = [known EXCEPT ![b] = TRUE]
    BY <1>2, Zenon DEF Lock
  <2>2. QED
    BY <1>0, <2>1
<1>3. QED
  BY <1>1, <1>2

\* The files of a bundle are opened when nothing works on it, or were before:
\* all that was current stays so.  The publication s begins on it or does not.
LEMMA OpensStep ==
  ASSUME GatewayTypeOK, FilesInv, NEW s \in Slots, NEW b \in Owned, NEW j \in JobType,
         job' = job \/ (job' = [job EXCEPT ![s] = j] /\ job[s].stage \notin Active /\ Placed(j) /\ Written(j, disk)),
         \/ j.stage \notin Active
         \/ j.stage = "check" /\ j.bundle = b /\ opened'[b] = "open" /\ ~Busy(s) /\ job[s].bundle = b,
         UNCHANGED <<opened, entries>> \/ (opened[b] = "none" /\ Lock(b)),
         UNCHANGED <<disk, manifest, orphaned>>
  PROVE  FilesInv'
<1>1. /\ \A c \in Owned \ {b} : opened'[c] = opened[c] /\ entries'[c] = entries[c]
      /\ opened[b] # "none" => opened'[b] = opened[b] /\ entries'[b] = entries[b]
      /\ opened[b] = "none" /\ opened'[b] = "open" => entries'[b] = manifest[b]
  BY LockChanges
<1>2. /\ \A o \in Slots \ {s} : job'[o] = job[o]
      /\ \/ job'[s] = job[s]
         \/ job'[s] = j /\ job[s].stage \notin Active
  BY Moves, JobShapes
<1>3. Passed /\ Alone /\ Current /\ IndexBacked /\ ManifestComplete
  BY DEF FilesInv, FilesConsistent
<1>4. Passed'
  <2>1. CASE job' = job
    BY <1>3, <2>1 DEF Passed
  <2>2. CASE job' = [job EXCEPT ![s] = j] /\ Placed(j) /\ Written(j, disk)
    BY <1>3, <2>2, PassedStep
  <2>3. QED
    BY <2>1, <2>2
<1>5. \A o \in Slots : job[o].bundle \in Owned
  BY JobShapes DEF Bundles, Owned
<1>6. \A o \in Slots : job[o].stage \in Active =>
        opened[job[o].bundle] = "open" /\ opened'[job[o].bundle] = "open"
          /\ entries'[job[o].bundle] = entries[job[o].bundle]
  BY <1>1, <1>3, <1>5 DEF Alone
<1>7. \A o \in Slots : job'[o].stage \in Active => job'[o] = job[o] \/ (o = s /\ job'[s] = j /\ j.stage = "check")
  BY <1>2 DEF Active
<1>8. Alone'
  <2>1. CASE job'[s] = job[s] \/ j.stage \notin Active
    <3>1. \A o \in Slots : job'[o].stage \in Active => job'[o] = job[o]
      BY <1>2, <1>7, <2>1
    <3>2. QED
      BY <1>3, <1>6, <3>1 DEF Alone
  <2>2. CASE job'[s] = j /\ j.stage = "check" /\ j.bundle = b /\ opened'[b] = "open" /\ ~Busy(s) /\ job[s].bundle = b
    <3>1. \A o \in Slots \ {s} : job[o].stage \in Active => job[o].bundle # b
      BY <2>2 DEF Busy, Active
    <3>2. QED
      BY <1>2, <1>3, <1>6, <2>2, <3>1 DEF Alone
  <2>3. QED
    BY <1>2, <2>1, <2>2
<1>9. \A o \in Slots : job'[o].stage = "save" <=> (job[o].stage = "save" /\ job'[o] = job[o])
  BY <1>2, <1>7 DEF Active
<1>10. \A d : Saving(d)' <=> Saving(d)
  <2>1. ASSUME NEW o \in Slots, job[o].stage = "save" PROVE job'[o] = job[o]
    BY <1>2, <2>1 DEF Active
  <2>2. QED
    BY <1>9, <2>1 DEF Saving
<1>11. Current'
  <2>1. \A o \in Slots : job'[o].stage = "save" =>
          disk'[Head(job'[o].left)] \in {Edited, entries'[job'[o].bundle][Head(job'[o].left)]}
    BY <1>3, <1>6, <1>9 DEF Current, Active
  <2>2. ASSUME NEW d \in Docs \ orphaned, opened'[BundleOf(d)] = "open"
        PROVE  disk[d] \in {0, Edited, entries'[BundleOf(d)][d]} \/ Saving(d)
    <3>1. BundleOf(d) \in Owned
      BY DEF BundleOf, Owned
    <3>2. CASE BundleOf(d) = b /\ opened[b] = "none"
      BY <1>1, <1>3, <2>2, <3>2 DEF ManifestComplete, Saving
    <3>3. CASE BundleOf(d) # b \/ opened[b] # "none"
      <4>1. opened'[BundleOf(d)] = opened[BundleOf(d)] /\ entries'[BundleOf(d)] = entries[BundleOf(d)]
        BY <1>1, <3>1, <3>3
      <4>2. QED
        BY <1>3, <2>2, <4>1 DEF Current
    <3>4. QED
      BY <3>2, <3>3
  <2>3. QED
    BY <1>10, <2>1, <2>2 DEF Current
<1>12. FilesConsistent'
  <2>1. IndexBacked'
    BY <1>3 DEF IndexBacked
  <2>2. \A d \in Docs \ orphaned' : disk'[d] \in {0, Edited, manifest'[BundleOf(d)][d]} \/ Saving(d)'
    BY <1>3, <1>10 DEF ManifestComplete, Saving
  <2>3. QED
    BY <2>1, <2>2 DEF FilesConsistent, ManifestComplete, Saving
<1>13. QED
  BY <1>4, <1>8, <1>11, <1>12 DEF FilesInv

LEMMA BeginFiles ==
  ASSUME GatewayTypeOK, FilesInv, NEW s \in Slots, Begin(s)
  PROVE  FilesInv'
<1> DEFINE b == job[s].bundle
           j == [stage |-> "check", bundle |-> b, rev |-> job[s].rev, left |-> job[s].left]
<1>1. /\ job[s].stage = "begin" /\ Placed(job[s]) /\ Written(job[s], disk) /\ b \in Owned
      /\ NoJob \in JobType /\ j \in JobType
  BY JobShapes DEF Begin, FilesInv, Passed, Bundles, Owned, JobType, Active
<1>2. UNCHANGED <<disk, manifest, orphaned>> /\ (UNCHANGED <<opened, entries>> \/ (opened[b] = "none" /\ Lock(b)))
  BY DEF Begin, memory
<1>3. \/ Busy(s) \/ opened'[b] = "failed"
      \/ ~Busy(s) /\ opened'[b] # "failed" /\ job' = [job EXCEPT ![s].stage = "check"]
  BY DEF Begin
<1>4. Busy(s) \/ opened'[b] = "failed" => job' = [job EXCEPT ![s] = NoJob]
  BY DEF Begin, Settle
<1>5. CASE Busy(s) \/ opened'[b] = "failed"
  <2>1. NoJob.stage \notin Active /\ Placed(NoJob) /\ Written(NoJob, disk) /\ job[s].stage \notin Active
    BY <1>1, NoJobPlaced DEF Active
  <2> HIDE DEF b, j
  <2>2. QED
    BY <1>1, <1>2, <1>4, <1>5, <2>1, OpensStep, Zenon
<1>6. CASE ~Busy(s) /\ opened'[b] # "failed" /\ job' = [job EXCEPT ![s].stage = "check"]
  <2>1. job' = [job EXCEPT ![s] = j]
    BY <1>6, JobShapes
  <2>2. opened'[b] = "open"
    <3>1. opened[b] \in {"none", "open", "failed"}
      BY <1>1 DEF GatewayTypeOK
    <3>2. opened[b] = "none" => Lock(b)
      BY <1>6, Zenon DEF Begin
    <3>3. CASE opened[b] = "none"
      BY <1>1, <1>6, <3>2, <3>3, LockChanges
    <3>4. CASE opened[b] # "none"
      BY <1>2, <1>6, <3>1, <3>4
    <3>5. QED
      BY <3>3, <3>4
  <2>3. /\ Placed(j) /\ Written(j, disk) /\ job[s].stage \notin Active
        /\ j.stage = "check" /\ j.bundle = b
    BY <1>1 DEF Placed, Written, Active, NoJob
  <2>4. job[s].bundle = b
    OBVIOUS
  <2> HIDE DEF b, j
  <2>5. QED
    BY <1>1, <1>2, <1>6, <2>1, <2>2, <2>3, <2>4, OpensStep, Zenon
<1>7. QED
  BY <1>3, <1>5, <1>6

\* A batch that has its document on disk is the only one that may save it.
LEMMA Stays ==
  ASSUME GatewayTypeOK, FilesInv, NEW s \in Slots, job[s].stage \in Active, NEW j \in JobType,
         j.stage \in Active, j.bundle = job[s].bundle, job' = [job EXCEPT ![s] = j], UNCHANGED opened
  PROVE  Alone'
<1>1. job'[s] = j /\ \A o \in Slots \ {s} : job'[o] = job[o]
  BY Moves
<1>2. Alone
  BY DEF FilesInv
<1>3. QED
  BY <1>1, <1>2 DEF Alone

LEMMA Others1 ==
  ASSUME GatewayTypeOK, FilesInv, NEW s \in Slots, job[s].stage \in Active, NEW o \in Slots \ {s}, job[o].stage = "save"
  PROVE  /\ job[o].bundle # job[s].bundle /\ job[o].bundle \in Owned
         /\ Head(job[o].left) \in Docs /\ BundleOf(Head(job[o].left)) = job[o].bundle
         /\ disk[Head(job[o].left)] \in {Edited, entries[job[o].bundle][Head(job[o].left)]}
<1>1. job[o].bundle # job[s].bundle
  BY DEF FilesInv, Alone, Active
<1>2. Placed(job[o]) /\ job[o].stage \in {"begin"} \cup Active
  BY DEF FilesInv, Passed, Active
<1>3. QED
  BY <1>1, <1>2, AtDocument DEF FilesInv, Current

\* The document of a batch goes to its save, with the entry that describes it.
LEMMA SavesNext ==
  ASSUME GatewayTypeOK, FilesInv, NEW s \in Slots, job[s].stage \in {"check", "write"},
         job' = [job EXCEPT ![s].stage = "save"],
         entries' = [entries EXCEPT ![job[s].bundle][Head(job[s].left)] = Hash(Head(job[s].left), job[s].rev)],
         disk' = [disk EXCEPT ![Head(job[s].left)] = Hash(Head(job[s].left), job[s].rev)],
         UNCHANGED <<manifest, orphaned, opened>>
  PROVE  FilesInv' /\ entries' \in [Owned -> [Docs -> Hashes]] /\ disk' \in [Docs -> Hashes]
<1> DEFINE b == job[s].bundle
           d == Head(job[s].left)
           h == Hash(d, job[s].rev)
           j == [stage |-> "save", bundle |-> b, rev |-> job[s].rev, left |-> job[s].left]
<1>1. Placed(job[s]) /\ Written(job[s], disk) /\ Passed /\ job[s].stage \in Active /\ job[s].stage # "save"
  BY DEF FilesInv, Passed, Active
<1>2. /\ d \in Docs /\ BundleOf(d) = b /\ b \in Owned /\ h \in Hashes /\ h # 0 /\ job[s].rev # 0
      /\ b = "models" => d = ModelOf(job[s].rev)
  BY <1>1, AtDocument DEF Hashes
<1>3. job' = [job EXCEPT ![s] = j] /\ j \in JobType /\ j.stage = "save" /\ j.bundle = b /\ j.left = job[s].left
      /\ j.rev = job[s].rev
  BY JobShapes DEF JobType, Active
<1>4. disk \in [Docs -> Hashes] /\ entries \in [Owned -> [Docs -> Hashes]]
  BY DEF GatewayTypeOK
<1>5. /\ disk' \in [Docs -> Hashes] /\ disk'[d] = h /\ \A x \in Docs \ {d} : disk'[x] = disk[x]
  BY <1>2, <1>4
<1>6. /\ entries' \in [Owned -> [Docs -> Hashes]]
      /\ \A c \in Owned, x \in Docs : entries'[c][x] = IF c = b /\ x = d THEN h ELSE entries[c][x]
  BY <1>2, <1>4, EntrySet
<1>7. \A x \in Docs : disk[x] # 0 => disk'[x] # 0
  BY <1>2, <1>5
<1>8. Placed(j) /\ Written(j, disk')
  <2>0. job[s] \in JobType
    BY JobShapes
  <2>1. Written(job[s], disk')
    <3> HIDE DEF b, d, h, j
    <3>1. Placed(job[s]) /\ Written(job[s], disk) /\ \A x \in Docs : disk[x] # 0 => disk'[x] # 0
      BY <1>1, <1>7
    <3>2. QED
      BY ONLY <2>0, <3>1, WrittenKept
  <2>2. Placed(j)
    BY <1>1, <1>3 DEF Placed, NoJob, Active
  <2>3. QED
    BY <1>2, <1>3, <1>5, <2>1, <2>2 DEF Written
<1> HIDE DEF b, d, h, j
<1>9. Passed'
  BY <1>1, <1>3, <1>7, <1>8, PassedStep
<1>10. Alone'
  BY <1>1, <1>3, Stays DEF Active, b
<1>11. job'[s] = j /\ (\A o \in Slots \ {s} : job'[o] = job[o]) /\ Head(j.left) = d
  BY <1>3, Moves DEF d
<1>12. \A x : x = d \/ Saving(x) => Saving(x)'
  BY <1>1, <1>3, <1>11 DEF Saving
<1>13. Current'
  <2>1. ASSUME NEW o \in Slots, job'[o].stage = "save"
        PROVE  disk'[Head(job'[o].left)] \in {Edited, entries'[job'[o].bundle][Head(job'[o].left)]}
    <3>1. CASE o = s
      BY <1>2, <1>3, <1>5, <1>6, <1>11, <3>1
    <3>2. CASE o # s
      <4>1. job'[o] = job[o] /\ o \in Slots \ {s}
        BY <1>11, <3>2
      <4>2. /\ job[o].bundle # b /\ job[o].bundle \in Owned
            /\ Head(job[o].left) \in Docs /\ BundleOf(Head(job[o].left)) = job[o].bundle
            /\ disk[Head(job[o].left)] \in {Edited, entries[job[o].bundle][Head(job[o].left)]}
        BY <1>1, <2>1, <4>1, Others1 DEF b
      <4>3. Head(job[o].left) # d
        BY <1>2, <4>2
      <4>4. QED
        BY <1>5, <1>6, <4>1, <4>2, <4>3, SMTT(40)
    <3>3. QED
      BY <3>1, <3>2
  <2>2. ASSUME NEW x \in Docs \ orphaned, opened[BundleOf(x)] = "open"
        PROVE  disk'[x] \in {0, Edited, entries'[BundleOf(x)][x]} \/ Saving(x)'
    <3>1. CASE x = d
      BY <1>12, <3>1
    <3>2. CASE x # d
      <4>1. disk[x] \in {0, Edited, entries[BundleOf(x)][x]} \/ Saving(x)
        BY <2>2 DEF FilesInv, Current
      <4>2. BundleOf(x) \in Owned
        BY DEF BundleOf, Owned
      <4>3. QED
        BY <1>5, <1>6, <1>12, <3>2, <4>1, <4>2
    <3>3. QED
      BY <3>1, <3>2
  <2>3. QED
    BY <2>1, <2>2 DEF Current
<1>14. FilesConsistent'
  <2>1. IndexBacked /\ ManifestComplete
    BY DEF FilesInv, FilesConsistent
  <2>2. \A x \in Docs \ orphaned' : disk'[x] \in {0, Edited, manifest'[BundleOf(x)][x]} \/ Saving(x)'
    <3> TAKE x \in Docs \ orphaned'
    <3>1. CASE x = d
      BY <1>12, <3>1
    <3>2. CASE x # d
      <4>1. disk[x] \in {0, Edited, manifest[BundleOf(x)][x]} \/ Saving(x)
        BY <2>1 DEF ManifestComplete, Saving
      <4>2. QED
        BY <1>5, <1>12, <3>2, <4>1
    <3>3. QED
      BY <3>1, <3>2
  <2>3. IndexBacked'
    <3> SUFFICES ASSUME NEW v \in 1..MaxRevision, disk'["index"] = v
                 PROVE  disk'[ModelOf(v)] # 0 /\ \A i \in DOMAIN Things(v) : disk'[Things(v)[i]] # 0
      BY DEF IndexBacked
    <3>1. "t1" \in Docs /\ "t2" \in Docs /\ "index" \in Docs /\ ModelOf(v) \in Docs
      BY DEF Docs, ModelOf
    <3>2. \A i \in DOMAIN Things(v) : Things(v)[i] \in Docs
      BY <3>1 DEF Things
    <3>3. CASE d # "index"
      <4>1. disk["index"] = v
        BY <1>5, <3>1, <3>3
      <4>2. disk[ModelOf(v)] # 0 /\ \A i \in DOMAIN Things(v) : disk[Things(v)[i]] # 0
        BY <2>1, <4>1 DEF IndexBacked
      <4>3. QED
        BY <1>7, <3>1, <3>2, <4>2
    <3>4. CASE d = "index"
      <4>1. v = job[s].rev /\ h = v
        BY <1>5, <3>4 DEF h, Hash
      <4>2. job[s].bundle = "things"
        BY <1>2, <3>4 DEF b, BundleOf
      <4>3. /\ disk[ModelOf(v)] # 0 /\ disk["t1"] # 0 /\ (v = 1 => disk["t2"] # 0)
        BY <1>1, <3>4, <4>1, <4>2 DEF Written, d
      <4>4. \A i \in DOMAIN Things(v) : Things(v)[i] = "t1" \/ (v = 1 /\ Things(v)[i] = "t2")
        BY DEF Things
      <4>5. QED
        BY <1>7, <3>1, <3>2, <4>3, <4>4
    <3>5. QED
      BY <3>3, <3>4
  <2>4. QED
    BY <2>2, <2>3 DEF FilesConsistent, ManifestComplete, Saving
<1>15. QED
  BY <1>5, <1>6, <1>9, <1>10, <1>13, <1>14 DEF FilesInv

LEMMA CheckFiles ==
  ASSUME GatewayTypeOK, FilesInv, NEW s \in Slots, Check(s)
  PROVE  FilesInv' /\ entries' \in [Owned -> [Docs -> Hashes]]
<1> DEFINE b == job[s].bundle
           d == Head(job[s].left)
           h == Hash(d, job[s].rev)
           j == [stage |-> "write", bundle |-> b, rev |-> job[s].rev, left |-> job[s].left]
<1>1. job[s].stage = "check" /\ UNCHANGED <<disk, manifest, locked, orphaned, known, opened>>
  BY DEF Check, files
<1>2. Placed(job[s]) /\ Written(job[s], disk) /\ Passed /\ job[s].stage \in Active
  BY <1>1 DEF FilesInv, Passed, Active
<1>3. d \in Docs /\ disk \in [Docs -> Hashes] /\ entries \in [Owned -> [Docs -> Hashes]]
  BY <1>2, AtDocument DEF GatewayTypeOK
<1>4. \/ job' = [job EXCEPT ![s] = NoJob] /\ UNCHANGED entries
      \/ /\ disk[d] = h /\ job' = [job EXCEPT ![s].stage = "save"]
         /\ entries' = [entries EXCEPT ![b][d] = h]
      \/ /\ disk[d] # h /\ job' = [job EXCEPT ![s].stage = "write"] /\ UNCHANGED entries
  BY DEF Check, Settle
<1>5. CASE job' = [job EXCEPT ![s] = NoJob] /\ UNCHANGED entries
  BY <1>1, <1>3, <1>5, Idled
<1>6. CASE disk[d] = h /\ job' = [job EXCEPT ![s].stage = "save"] /\ entries' = [entries EXCEPT ![b][d] = h]
  <2>1. disk' = [disk EXCEPT ![d] = h]
    BY <1>1, <1>3, <1>6
  <2>2. QED
    BY <1>1, <1>6, <2>1, SavesNext, Zenon
<1>7. CASE job' = [job EXCEPT ![s].stage = "write"] /\ UNCHANGED entries
  <2>1. job' = [job EXCEPT ![s] = j] /\ j \in JobType
    BY <1>7, JobShapes DEF JobType, Active
  <2>2. Placed(j) /\ Written(j, disk) /\ j.stage = "write" /\ j.bundle = b
    BY <1>1, <1>2 DEF Placed, Written, NoJob, Active
  <2>3. Passed' /\ Alone'
    <3>1. Passed'
      <4> HIDE DEF j, b
      <4>1. QED
        BY <1>1, <1>2, <2>1, <2>2, PassedStep
    <3>2. j.stage \in Active
      BY DEF Active
    <3> HIDE DEF j
    <3>3. QED
      BY <1>1, <1>2, <2>1, <2>2, <3>1, <3>2, Stays
  <2>4. job'[s] = j /\ \A o \in Slots \ {s} : job'[o] = job[o]
    <3> HIDE DEF j
    <3>1. QED
      BY <2>1, Moves
  <2>5. \A x : Saving(x)' <=> Saving(x)
    BY <1>1, <2>4 DEF Saving
  <2>6. \A o \in Slots : job'[o].stage = "save" => job'[o] = job[o]
    BY <2>2, <2>4
  <2> HIDE DEF j, b
  <2>7. Current'
    BY <1>1, <1>7, <2>5, <2>6 DEF FilesInv, Current
  <2>8. FilesConsistent'
    <3>1. IndexBacked'
      BY <1>1 DEF FilesInv, FilesConsistent, IndexBacked
    <3>2. \A x \in Docs \ orphaned' : disk'[x] \in {0, Edited, manifest'[BundleOf(x)][x]} \/ Saving(x)'
      BY <1>1, <2>5 DEF FilesInv, FilesConsistent, ManifestComplete, Saving
    <3>3. QED
      BY <3>1, <3>2 DEF FilesConsistent, ManifestComplete, Saving
  <2>9. QED
    BY <1>3, <1>7, <2>3, <2>7, <2>8 DEF FilesInv
<1>8. QED
  BY <1>4, <1>5, <1>6, <1>7

LEMMA WriteFiles ==
  ASSUME GatewayTypeOK, FilesInv, NEW s \in Slots, WriteDocument(s)
  PROVE  FilesInv' /\ entries' \in [Owned -> [Docs -> Hashes]] /\ disk' \in [Docs -> Hashes]
<1>1. /\ job[s].stage = "write" /\ job' = [job EXCEPT ![s].stage = "save"]
      /\ entries' = [entries EXCEPT ![job[s].bundle][Head(job[s].left)] = Hash(Head(job[s].left), job[s].rev)]
      /\ disk' = [disk EXCEPT ![Head(job[s].left)] = Hash(Head(job[s].left), job[s].rev)]
      /\ UNCHANGED <<manifest, orphaned, opened>>
  BY DEF WriteDocument
<1>2. QED
  BY <1>1, SavesNext, Zenon

\* A publication that stops half-way: its document is no longer being saved.
LEMMA StopsStep ==
  ASSUME GatewayTypeOK, FilesInv, NEW s \in Slots, NEW j \in JobType, job' = [job EXCEPT ![s] = j],
         j.stage \notin {"write", "save"}, j.stage \in Active => j.bundle = job[s].bundle,
         Placed(j), Written(j, disk'), job[s].stage \in Active,
         UNCHANGED <<entries, opened>>,
         \A d \in Docs : disk[d] # 0 => disk'[d] # 0,
         \A d \in Docs : disk'[d] # disk[d] => d \in orphaned' /\ d = Head(job[s].left),
         \A c \in Owned : c # job[s].bundle => manifest'[c] = manifest[c],
         \A d \in Docs : BundleOf(d) # job[s].bundle /\ d \in orphaned => d \in orphaned',
         \A d \in Docs \ orphaned' : BundleOf(d) = job[s].bundle =>
             /\ disk[d] \in {0, Edited, manifest'[BundleOf(d)][d]}
             /\ disk[d] \in {0, Edited, entries[BundleOf(d)][d]},
         IndexBacked'
  PROVE  FilesInv'
<1>1. job'[s] = j /\ \A o \in Slots \ {s} : job'[o] = job[o]
  BY Moves
<1>2. Passed /\ Alone /\ Current /\ ManifestComplete
  BY DEF FilesInv, FilesConsistent
<1>3. Passed'
  BY <1>2, PassedStep
<1>4. Alone'
  BY <1>1, <1>2 DEF Alone
<1>5. ASSUME NEW o \in Slots, job'[o].stage = "save"
      PROVE  /\ o \in Slots \ {s} /\ job'[o] = job[o] /\ job[o].bundle # job[s].bundle /\ job[o].bundle \in Owned
             /\ Head(job[o].left) \in Docs /\ BundleOf(Head(job[o].left)) = job[o].bundle
             /\ disk[Head(job[o].left)] \in {Edited, entries[job[o].bundle][Head(job[o].left)]}
  <2>1. o # s
    BY <1>1, <1>5
  <2>2. o \in Slots \ {s} /\ job'[o] = job[o]
    BY <1>1, <2>1
  <2>3. QED
    BY <1>5, <2>2, Others1
<1>6. Placed(job[s]) /\ Head(job[s].left) \in Docs /\ BundleOf(Head(job[s].left)) = job[s].bundle
  <2>1. Placed(job[s]) /\ job[s].stage \in {"begin"} \cup Active
    BY <1>2 DEF Passed
  <2>2. QED
    BY <2>1, AtDocument
<1>7. ASSUME NEW x \in Docs, BundleOf(x) # job[s].bundle, Saving(x) PROVE Saving(x)'
  <2>1. PICK o \in Slots : job[o].stage = "save" /\ Head(job[o].left) = x
    BY <1>7 DEF Saving
  <2>2. o # s
    BY <1>6, <1>7, <2>1
  <2>3. QED
    BY <1>1, <2>1, <2>2 DEF Saving
<1>8. \A x \in Docs : BundleOf(x) # job[s].bundle => disk'[x] = disk[x]
  BY <1>6
<1>9. Current'
  <2>1. ASSUME NEW o \in Slots, job'[o].stage = "save"
        PROVE  disk'[Head(job'[o].left)] \in {Edited, entries'[job'[o].bundle][Head(job'[o].left)]}
    <3>1. /\ job'[o] = job[o] /\ job[o].bundle # job[s].bundle
          /\ Head(job[o].left) \in Docs /\ BundleOf(Head(job[o].left)) = job[o].bundle
          /\ disk[Head(job[o].left)] \in {Edited, entries[job[o].bundle][Head(job[o].left)]}
      BY <1>5, <2>1
    <3>2. disk'[Head(job[o].left)] = disk[Head(job[o].left)]
      BY <1>8, <3>1
    <3>3. QED
      BY <3>1, <3>2
  <2>2. ASSUME NEW x \in Docs \ orphaned', opened[BundleOf(x)] = "open"
        PROVE  disk'[x] \in {0, Edited, entries[BundleOf(x)][x]} \/ Saving(x)'
    <3>1. CASE BundleOf(x) = job[s].bundle
      BY <2>2, <3>1
    <3>2. CASE BundleOf(x) # job[s].bundle
      <4>1. x \in Docs \ orphaned
        BY <3>2
      <4>2. disk[x] \in {0, Edited, entries[BundleOf(x)][x]} \/ Saving(x)
        BY <1>2, <2>2, <4>1 DEF Current
      <4>3. QED
        BY <1>7, <1>8, <3>2, <4>1, <4>2
    <3>3. QED
      BY <3>1, <3>2
  <2>3. QED
    BY <2>1, <2>2 DEF Current
<1>10. ManifestComplete'
  <2>1. ASSUME NEW x \in Docs \ orphaned'
        PROVE  disk'[x] \in {0, Edited, manifest'[BundleOf(x)][x]} \/ Saving(x)'
    <3>1. CASE BundleOf(x) = job[s].bundle
      BY <2>1, <3>1
    <3>2. CASE BundleOf(x) # job[s].bundle
      <4>1. x \in Docs \ orphaned /\ BundleOf(x) \in Owned
        BY <3>2 DEF BundleOf, Owned
      <4>2. disk[x] \in {0, Edited, manifest[BundleOf(x)][x]} \/ Saving(x)
        BY <1>2, <4>1 DEF ManifestComplete, Saving
      <4>3. QED
        BY <1>7, <1>8, <3>2, <4>1, <4>2
    <3>3. QED
      BY <3>1, <3>2
  <2>2. QED
    BY <2>1 DEF ManifestComplete, Saving
<1>11. QED
  BY <1>3, <1>4, <1>9, <1>10 DEF FilesInv, FilesConsistent

\* What is recorded of a bundle that a batch works on: all but its document.
LEMMA BundleKnown ==
  ASSUME GatewayTypeOK, FilesInv, NEW s \in Slots, job[s].stage \in Active, NEW d \in Docs \ orphaned,
         BundleOf(d) = job[s].bundle, job[s].stage = "save" => d # Head(job[s].left)
  PROVE  disk[d] \in {0, Edited, manifest[BundleOf(d)][d]} /\ disk[d] \in {0, Edited, entries[BundleOf(d)][d]}
<1>1. ~Saving(d)
  <2>1. SUFFICES ASSUME NEW o \in Slots, job[o].stage = "save", Head(job[o].left) = d PROVE FALSE
    BY DEF Saving
  <2>2. o \in Slots \ {s}
    BY <2>1
  <2>3. QED
    BY <2>1, <2>2, Others1
<1>2. opened[BundleOf(d)] = "open"
  BY DEF FilesInv, Alone
<1>3. QED
  BY <1>1, <1>2 DEF FilesInv, Current, FilesConsistent, ManifestComplete, Saving

\* The failure of atomicJson(), before or after its rename.
LEMMA WriteFailsFiles ==
  ASSUME GatewayTypeOK, FilesInv, NEW s \in Slots, WriteFails(s)
  PROVE  FilesInv' /\ disk' \in [Docs -> Hashes] /\ orphaned' \subseteq Docs
<1> DEFINE d == Head(job[s].left)
           h == Hash(d, job[s].rev)
<1>1. /\ job[s].stage = "write" /\ job' = [job EXCEPT ![s] = NoJob] /\ UNCHANGED <<manifest, entries, opened>>
      /\ \/ UNCHANGED <<disk, orphaned>>
         \/ disk' = [disk EXCEPT ![d] = h] /\ orphaned' = orphaned \cup {d}
  BY DEF WriteFails, Settle, memory
<1>2. Placed(job[s]) /\ Written(job[s], disk) /\ job[s].stage \in Active /\ IndexBacked
  BY <1>1 DEF FilesInv, Passed, Active, FilesConsistent
<1>3. d \in Docs /\ BundleOf(d) = job[s].bundle /\ h \in Hashes /\ h # 0
  BY <1>2, AtDocument DEF Hashes
<1>4. /\ disk \in [Docs -> Hashes] /\ orphaned \subseteq Docs
      /\ NoJob \in JobType /\ Placed(NoJob) /\ Written(NoJob, disk') /\ NoJob.stage \notin Active
      /\ NoJob.stage \notin {"write", "save"}
  BY JobShapes, NoJobPlaced DEF GatewayTypeOK, Active
<1> HIDE DEF h
<1>5. /\ disk' \in [Docs -> Hashes] /\ orphaned' \subseteq Docs
      /\ \A x \in Docs : disk[x] # 0 => disk'[x] # 0
      /\ \A x \in Docs : disk'[x] # disk[x] => x \in orphaned' /\ x = d
      /\ orphaned \subseteq orphaned'
      /\ disk'[d] \in {disk[d], h}
  BY <1>1, <1>3, <1>4
<1>6. \A x \in Docs \ orphaned' : BundleOf(x) = job[s].bundle =>
             /\ disk[x] \in {0, Edited, manifest[BundleOf(x)][x]}
             /\ disk[x] \in {0, Edited, entries[BundleOf(x)][x]}
  BY <1>1, <1>2, <1>5, BundleKnown
<1>7. IndexBacked'
  <2> SUFFICES ASSUME NEW v \in 1..MaxRevision, disk'["index"] = v
               PROVE  disk'[ModelOf(v)] # 0 /\ \A i \in DOMAIN Things(v) : disk'[Things(v)[i]] # 0
    BY DEF IndexBacked
  <2>1. "t1" \in Docs /\ "t2" \in Docs /\ "index" \in Docs /\ ModelOf(v) \in Docs
    BY DEF Docs, ModelOf
  <2>2. \A i \in DOMAIN Things(v) : Things(v)[i] \in Docs
    BY <2>1 DEF Things
  <2>3. CASE disk["index"] = v
    <3>1. disk[ModelOf(v)] # 0 /\ \A i \in DOMAIN Things(v) : disk[Things(v)[i]] # 0
      BY <1>2, <2>3 DEF IndexBacked
    <3>2. QED
      BY <1>5, <2>1, <2>2, <3>1
  <2>4. CASE disk["index"] # v
    <3>1. d = "index" /\ h = v
      BY <1>5, <2>1, <2>4
    <3>2. v = job[s].rev /\ job[s].bundle = "things"
      BY <1>3, <3>1 DEF h, Hash, BundleOf
    <3>3. /\ disk[ModelOf(v)] # 0 /\ disk["t1"] # 0 /\ (v = 1 => disk["t2"] # 0)
      BY <1>2, <3>1, <3>2 DEF Written
    <3>4. \A i \in DOMAIN Things(v) : Things(v)[i] = "t1" \/ (v = 1 /\ Things(v)[i] = "t2")
      BY DEF Things
    <3>5. QED
      BY <1>5, <2>1, <2>2, <3>3, <3>4
  <2>5. QED
    BY <2>3, <2>4
<1>8. FilesInv'
  <2>1. /\ \A x \in Docs : disk'[x] # disk[x] => x \in orphaned' /\ x = Head(job[s].left)
        /\ \A c \in Owned : c # job[s].bundle => manifest'[c] = manifest[c]
        /\ \A x \in Docs : BundleOf(x) # job[s].bundle /\ x \in orphaned => x \in orphaned'
        /\ \A x \in Docs \ orphaned' : BundleOf(x) = job[s].bundle =>
             /\ disk[x] \in {0, Edited, manifest'[BundleOf(x)][x]}
             /\ disk[x] \in {0, Edited, entries[BundleOf(x)][x]}
    BY <1>1, <1>5, <1>6
  <2> HIDE DEF d
  <2>2. QED
    BY <1>1, <1>2, <1>4, <1>5, <1>7, <2>1, StopsStep
<1>9. QED
  BY <1>5, <1>8

\* What is known of the documents of a bundle whose manifest has been saved.
LEMMA SavedKnown ==
  ASSUME GatewayTypeOK, FilesInv, NEW s \in Slots, job[s].stage = "save",
         manifest' = [manifest EXCEPT ![job[s].bundle] = entries[job[s].bundle]],
         orphaned' = Recorded(job[s].bundle)
  PROVE  /\ manifest' \in [Owned -> [Docs -> Hashes]] /\ orphaned' \subseteq Docs
         /\ \A c \in Owned : c # job[s].bundle => manifest'[c] = manifest[c]
         /\ \A x \in Docs : BundleOf(x) # job[s].bundle /\ x \in orphaned => x \in orphaned'
         /\ \A x \in Docs \ orphaned' : BundleOf(x) = job[s].bundle =>
              /\ disk[x] \in {0, Edited, manifest'[BundleOf(x)][x]}
              /\ disk[x] \in {0, Edited, entries[BundleOf(x)][x]}
<1> DEFINE b == job[s].bundle
<1>1. b \in Owned /\ job[s].stage \in Active
  BY JobShapes DEF Bundles, Owned, Active
<1>2. manifest \in [Owned -> [Docs -> Hashes]] /\ entries[b] \in [Docs -> Hashes] /\ orphaned \subseteq Docs
  BY <1>1 DEF GatewayTypeOK
<1>3. manifest' \in [Owned -> [Docs -> Hashes]] /\ manifest'[b] = entries[b]
      /\ \A c \in Owned : c # b => manifest'[c] = manifest[c]
  BY <1>1, <1>2
<1>4. orphaned' = orphaned \ {x \in Docs : BundleOf(x) = b /\ entries[b][x] = disk[x]}
  BY <1>3 DEF Recorded
<1>5. ASSUME NEW x \in Docs \ orphaned', BundleOf(x) = b
      PROVE  disk[x] \in {0, Edited, entries[b][x]}
  <2>1. CASE x \in orphaned
    BY <1>4, <1>5, <2>1
  <2>2. CASE x \notin orphaned /\ x = Head(job[s].left)
    BY <2>2 DEF FilesInv, Current
  <2>3. CASE x \notin orphaned /\ x # Head(job[s].left)
    BY <1>1, <1>5, <2>3, BundleKnown
  <2>4. QED
    BY <2>1, <2>2, <2>3
<1>6. QED
  BY <1>2, <1>3, <1>4, <1>5

LEMMA SaveFiles ==
  ASSUME GatewayTypeOK, FilesInv, NEW s \in Slots, Save(s)
  PROVE  /\ FilesInv' /\ manifest' \in [Owned -> [Docs -> Hashes]] /\ orphaned' \subseteq Docs
         /\ job' \in [Slots -> JobType]
<1> DEFINE b == job[s].bundle
           v == job[s].rev
           rest == Tail(job[s].left)
           next == [stage |-> "check", bundle |-> b, rev |-> v, left |-> rest]
           host == [stage |-> "hosted", bundle |-> b, rev |-> v, left |-> rest]
<1>1. /\ job[s].stage = "save" /\ UNCHANGED <<disk, entries, opened>>
      /\ manifest' = [manifest EXCEPT ![b] = entries[b]] /\ orphaned' = Recorded(b) /\ Advance(s)
  BY DEF Save, memory
<1>2. /\ manifest' \in [Owned -> [Docs -> Hashes]] /\ orphaned' \subseteq Docs
      /\ \A c \in Owned : c # b => manifest'[c] = manifest[c]
      /\ \A x \in Docs : BundleOf(x) # b /\ x \in orphaned => x \in orphaned'
      /\ \A x \in Docs \ orphaned' : BundleOf(x) = b =>
           /\ disk[x] \in {0, Edited, manifest'[BundleOf(x)][x]}
           /\ disk[x] \in {0, Edited, entries[BundleOf(x)][x]}
  BY <1>1, SavedKnown
<1>3. Placed(job[s]) /\ Written(job[s], disk) /\ job[s].stage \in Active /\ IndexBacked
  BY <1>1 DEF FilesInv, Passed, Active, FilesConsistent
<1>4. /\ rest \in Seq(Docs) /\ v \in Nat /\ v # 0 /\ b \in Bundles /\ job[s] \in JobType
      /\ b = "models" => Head(job[s].left) = ModelOf(v) /\ rest = <<>>
      /\ b = "things" => job[s].left \in Lefts(v)
  BY <1>3, AtDocument, JobShapes
<1>5. /\ next \in JobType /\ host \in JobType /\ NoJob \in JobType
      /\ next.stage = "check" /\ next.bundle = b /\ next.left = rest /\ next.rev = v
      /\ host.stage = "hosted" /\ host.bundle = b /\ host.rev = v
  BY <1>4, JobShapes DEF JobType, Active
<1>6. \/ rest # <<>> /\ job' = [job EXCEPT ![s] = next]
      \/ rest = <<>> /\ b = "models" /\ job' = [job EXCEPT ![s] = host]
      \/ job' = [job EXCEPT ![s] = NoJob]
  <2>1. CASE rest # <<>>
    BY <1>1, <1>4, <2>1, JobShapes DEF Advance
  <2>2. CASE rest = <<>> /\ b = "models"
    <3>1. job' = [job EXCEPT ![s].left = rest, ![s].stage = "hosted"]
      BY <1>1, <2>2, Zenon DEF Advance
    <3>2. QED
      BY <1>4, <2>2, <3>1, JobShapes
  <2>3. CASE rest = <<>> /\ b # "models"
    BY <1>1, <2>3 DEF Advance, Settle
  <2>4. QED
    BY <2>1, <2>2, <2>3
<1>7. IndexBacked'
  BY <1>1, <1>3 DEF IndexBacked
<1>8. ASSUME NEW j \in JobType, job' = [job EXCEPT ![s] = j], j.stage \notin {"write", "save"},
             j.stage \in Active => j.bundle = b, Placed(j), Written(j, disk)
      PROVE  FilesInv'
  <2>1. /\ \A x \in Docs : disk'[x] # disk[x] => x \in orphaned' /\ x = Head(job[s].left)
        /\ \A x \in Docs : disk[x] # 0 => disk'[x] # 0
        /\ Written(j, disk') /\ UNCHANGED <<entries, opened>>
    BY <1>1, <1>8
  <2>2. QED
    BY <1>2, <1>3, <1>7, <1>8, <2>1, StopsStep
<1>9. job' \in [Slots -> JobType]
  <2> HIDE DEF next, host
  <2>1. QED
    BY <1>5, <1>6, Moves
<1>10. CASE rest # <<>> /\ job' = [job EXCEPT ![s] = next]
  <2>1. b = "things" /\ job[s].left \in Lefts(v)
    BY <1>4, <1>10 DEF Bundles
  <2>2. /\ rest \in Lefts(v) /\ Head(rest) \in {"t2", "index"} /\ Head(job[s].left) \in {"t1", "t2"}
        /\ Head(job[s].left) = "t2" => v = 1
        /\ v = 1 /\ Head(job[s].left) = "t1" => Head(rest) = "t2"
    BY <1>4, <1>10, <2>1, Documented
  <2>3. Placed(next) /\ next.stage # "write" /\ next.stage # "save"
    BY <1>4, <1>5, <2>1, <2>2 DEF Placed, Active
  <2>4. Written(next, disk)
    BY <1>1, <1>3, <1>5, <2>1, <2>2 DEF Written
  <2> HIDE DEF next
  <2>5. QED
    BY <1>2, <1>5, <1>8, <1>9, <1>10, <2>3, <2>4
<1>11. CASE rest = <<>> /\ b = "models" /\ job' = [job EXCEPT ![s] = host]
  <2>1. Placed(host) /\ host.stage \notin Active /\ host.stage # "write" /\ host.stage # "save"
    BY <1>4, <1>5, <1>11 DEF Placed, Active
  <2>2. Written(host, disk)
    BY <1>1, <1>3, <1>4, <1>5, <1>11 DEF Written
  <2> HIDE DEF host
  <2>3. QED
    BY <1>2, <1>5, <1>8, <1>9, <1>11, <2>1, <2>2
<1>12. CASE job' = [job EXCEPT ![s] = NoJob]
  <2>1. NoJob.stage \notin Active /\ Placed(NoJob) /\ Written(NoJob, disk) /\ NoJob.stage \notin {"write", "save"}
    BY NoJobPlaced DEF Active
  <2>2. QED
    BY <1>2, <1>5, <1>8, <1>9, <1>12, <2>1
<1>13. QED
  BY <1>6, <1>10, <1>11, <1>12

\* The failure of the save, before or after its rename.
LEMMA SaveFailsFiles ==
  ASSUME GatewayTypeOK, FilesInv, NEW s \in Slots, SaveFails(s)
  PROVE  FilesInv' /\ manifest' \in [Owned -> [Docs -> Hashes]] /\ orphaned' \subseteq Docs /\ known' \in [Owned -> BOOLEAN]
<1> DEFINE b == job[s].bundle
           d == Head(job[s].left)
<1>1. /\ job[s].stage = "save" /\ job' = [job EXCEPT ![s] = NoJob] /\ UNCHANGED <<disk, entries, opened>>
      /\ \/ /\ UNCHANGED <<manifest, known>>
            /\ orphaned' = IF manifest[b][d] = disk[d] THEN orphaned ELSE orphaned \cup {d}
         \/ /\ manifest' = [manifest EXCEPT ![b] = entries[b]] /\ known' = [known EXCEPT ![b] = FALSE]
            /\ orphaned' = Recorded(b)
  BY DEF SaveFails, Settle
<1>2. Placed(job[s]) /\ Written(job[s], disk) /\ job[s].stage \in Active /\ IndexBacked
  BY <1>1 DEF FilesInv, Passed, Active, FilesConsistent
<1>3. d \in Docs /\ BundleOf(d) = b /\ manifest \in [Owned -> [Docs -> Hashes]] /\ orphaned \subseteq Docs
      /\ known \in [Owned -> BOOLEAN] /\ b \in Owned
  BY <1>2, AtDocument DEF GatewayTypeOK
<1>4. known' \in [Owned -> BOOLEAN]
  BY <1>1, <1>3
<1>5. /\ manifest' \in [Owned -> [Docs -> Hashes]] /\ orphaned' \subseteq Docs
      /\ \A c \in Owned : c # b => manifest'[c] = manifest[c]
      /\ \A x \in Docs : BundleOf(x) # b /\ x \in orphaned => x \in orphaned'
      /\ \A x \in Docs \ orphaned' : BundleOf(x) = b =>
           /\ disk[x] \in {0, Edited, manifest'[BundleOf(x)][x]}
           /\ disk[x] \in {0, Edited, entries[BundleOf(x)][x]}
  <2>1. CASE manifest' = [manifest EXCEPT ![b] = entries[b]] /\ orphaned' = Recorded(b)
    BY <1>1, <2>1, SavedKnown
  <2>2. CASE UNCHANGED manifest /\ orphaned' = IF manifest[b][d] = disk[d] THEN orphaned ELSE orphaned \cup {d}
    <3>1. orphaned \subseteq orphaned' /\ orphaned' \subseteq Docs
      BY <1>3, <2>2
    <3>2. ASSUME NEW x \in Docs \ orphaned', BundleOf(x) = b
          PROVE  /\ disk[x] \in {0, Edited, manifest[BundleOf(x)][x]}
                 /\ disk[x] \in {0, Edited, entries[BundleOf(x)][x]}
      <4>1. CASE x = d
        <5>1. manifest[b][d] = disk[d]
          BY <2>2, <3>2, <4>1
        <5>2. disk[d] \in {Edited, entries[b][d]}
          BY <1>1 DEF FilesInv, Current
        <5>3. QED
          BY <3>2, <4>1, <5>1, <5>2
      <4>2. CASE x # d
        BY <1>2, <3>1, <3>2, <4>2, BundleKnown
      <4>3. QED
        BY <4>1, <4>2
    <3>3. QED
      BY <1>3, <2>2, <3>1, <3>2
  <2>3. QED
    BY <1>1, <2>1, <2>2
<1>6. IndexBacked'
  BY <1>1, <1>2 DEF IndexBacked
<1>7. NoJob \in JobType /\ NoJob.stage \notin Active /\ NoJob.stage \notin {"write", "save"} /\ Placed(NoJob)
      /\ Written(NoJob, disk')
  BY JobShapes, NoJobPlaced DEF Active
<1>8. /\ \A x \in Docs : disk'[x] # disk[x] => x \in orphaned' /\ x = Head(job[s].left)
      /\ \A x \in Docs : disk[x] # 0 => disk'[x] # 0
  BY <1>1
<1>9. FilesInv'
  <2> HIDE DEF d
  <2>1. QED
    BY <1>1, <1>2, <1>5, <1>6, <1>7, <1>8, StopsStep
<1>10. QED
  BY <1>4, <1>5, <1>9

\* Between the two bundles of a publication.
LEMMA HostedFiles ==
  ASSUME GatewayTypeOK, FilesInv, NEW s \in Slots, Hosted(s)
  PROVE  FilesInv' /\ job' \in [Slots -> JobType]
<1> DEFINE v == job[s].rev
           j == [stage |-> "begin", bundle |-> "things", rev |-> v, left |-> Documents("things", v)]
<1>1. /\ job[s].stage = "hosted" /\ UNCHANGED <<disk, manifest, orphaned, entries, opened>>
      /\ (job' = [job EXCEPT ![s] = NoJob] \/ job' = [job EXCEPT ![s] = j])
  BY DEF Hosted, Settle, files, memory
<1>2. Placed(job[s]) /\ Written(job[s], disk) /\ NoJob \in JobType
  BY JobShapes DEF FilesInv, Passed
<1>3. v \in Nat /\ v # 0
  <2>1. v \in Nat
    BY JobShapes
  <2>2. NoJob.stage = "idle" /\ job[s].stage = "hosted"
    BY <1>1, NoJobPlaced
  <2>3. v # 0
    BY <1>2, <2>2 DEF Placed, Active
  <2>4. QED
    BY <2>1, <2>3
<1>4. /\ Documents("things", v) \in Lefts(v) /\ Documents("things", v) \in Seq(Docs)
      /\ Head(Documents("things", v)) = "t1"
  BY <1>3, Documented
<1>5. j \in JobType /\ j.stage = "begin" /\ j.bundle = "things" /\ j.rev = v /\ j.left = Documents("things", v)
  BY <1>3, <1>4 DEF JobType, Bundles
<1> HIDE DEF j
<1>6. Placed(j) /\ Written(j, disk) /\ j.stage \notin Active
  BY <1>1, <1>2, <1>3, <1>4, <1>5 DEF Placed, Written, Active
<1>7. CASE job' = [job EXCEPT ![s] = NoJob]
  <2>1. job' \in [Slots -> JobType]
    BY <1>2, <1>7, Moves
  <2>2. QED
    BY <1>1, <1>7, <2>1, Idled
<1>8. CASE job' = [job EXCEPT ![s] = j]
  <2>1. job' \in [Slots -> JobType]
    BY <1>5, <1>8, Moves
  <2>2. job[s].stage # "save"
    BY <1>1
  <2>3. QED
    BY <1>1, <1>5, <1>6, <1>8, <2>1, <2>2, LeavesStep
<1>9. QED
  BY <1>1, <1>7, <1>8

LEMMA PublicationKnown ==
  ASSUME NEW v \in Nat, v # 0
  PROVE  /\ Publication(v) \in JobType /\ Publication(v).stage \notin Active
         /\ Placed(Publication(v)) /\ \A on : Written(Publication(v), on)
<1>1. ModelOf(v) \in {"m1", "m2"} /\ Documents("models", v) = <<ModelOf(v)>>
  BY Documented
<1>2. <<ModelOf(v)>> \in Seq(Docs) /\ <<>> \in Seq(Docs)
  BY <1>1 DEF Docs
<1>3. CASE "directory" \in mode
  <2>1. Publication(v) = [stage |-> "reconcile", bundle |-> "models", rev |-> v, left |-> <<>>]
    BY <1>3 DEF Publication, NoJob
  <2>2. QED
    BY <1>2, <2>1 DEF JobType, Bundles, Active, Placed, Written
<1>4. CASE "directory" \notin mode
  <2>1. Publication(v) = [stage |-> "begin", bundle |-> "models", rev |-> v, left |-> <<ModelOf(v)>>]
    BY <1>1, <1>4 DEF Publication
  <2>2. QED
    BY <1>2, <2>1 DEF JobType, Bundles, Active, Placed, Written
<1>5. QED
  BY <1>3, <1>4

\* A publication is handed over.
LEMMA PublishFiles ==
  ASSUME GatewayTypeOK, FilesInv, NEW s \in Slots, job[s] = NoJob, NEW v \in Revisions,
         published' = v, job' = [job EXCEPT ![s] = Publication(v)],
         UNCHANGED <<disk, manifest, orphaned, entries, opened>>
  PROVE  FilesInv' /\ job' \in [Slots -> JobType] /\ published' \in Nat
<1>1. v \in Nat /\ v # 0
  BY GatewayAssumption DEF Revisions, GatewayTypeOK
<1>2. /\ Publication(v) \in JobType /\ Publication(v).stage \notin Active
      /\ Placed(Publication(v)) /\ Written(Publication(v), disk)
  BY <1>1, PublicationKnown
<1>3. job' \in [Slots -> JobType]
  BY <1>2, Moves
<1>4. job[s].stage # "save"
  BY NoJobPlaced
<1>5. QED
  BY <1>1, <1>2, <1>3, <1>4, LeavesStep

\* Somebody edits a document.
LEMMA EditFiles ==
  ASSUME GatewayTypeOK, FilesInv, Edit
  PROVE  FilesInv' /\ disk' \in [Docs -> Hashes]
<1>1. PICK d \in Docs : disk[d] # 0 /\ disk' = [disk EXCEPT ![d] = Edited]
  BY DEF Edit
<1>2. UNCHANGED <<job, manifest, orphaned, entries, opened>>
  BY DEF Edit, memory
<1>3. disk \in [Docs -> Hashes] /\ Edited # 0 /\ Edited \notin Nat /\ Edited \in Hashes
  BY DEF GatewayTypeOK, Edited, Hashes
<1>4. /\ disk' \in [Docs -> Hashes]
      /\ \A x \in Docs : disk'[x] \in {disk[x], Edited}
      /\ \A x \in Docs : disk[x] # 0 => disk'[x] # 0
  BY <1>1, <1>3
<1>5. Passed'
  <2>1. ASSUME NEW s \in Slots PROVE Placed(job'[s]) /\ Written(job'[s], disk')
    <3>1. job[s] \in JobType /\ Placed(job[s]) /\ Written(job[s], disk)
      BY JobShapes DEF FilesInv, Passed
    <3>2. Written(job[s], disk')
      BY <1>4, <3>1, WrittenKept
    <3>3. QED
      BY <1>2, <3>1, <3>2
  <2>2. QED
    BY <2>1 DEF Passed
<1>6. Alone'
  BY <1>2 DEF FilesInv, Alone
<1>7. \A x : Saving(x)' <=> Saving(x)
  BY <1>2 DEF Saving
<1>8. Current'
  <2>1. ASSUME NEW s \in Slots, job[s].stage = "save"
        PROVE  disk'[Head(job[s].left)] \in {Edited, entries[job[s].bundle][Head(job[s].left)]}
    <3>1. disk[Head(job[s].left)] \in {Edited, entries[job[s].bundle][Head(job[s].left)]}
      BY <2>1 DEF FilesInv, Current
    <3>2. Head(job[s].left) \in Docs
      BY <2>1, AtDocument DEF FilesInv, Passed, Active
    <3>3. QED
      BY <1>4, <3>1, <3>2
  <2>2. \A x \in Docs \ orphaned :
          opened[BundleOf(x)] = "open" => disk'[x] \in {0, Edited, entries[BundleOf(x)][x]} \/ Saving(x)
    BY <1>4 DEF FilesInv, Current
  <2>3. QED
    BY <1>2, <1>7, <2>1, <2>2 DEF Current
<1>9. ManifestComplete'
  <2>1. \A x \in Docs \ orphaned : disk'[x] \in {0, Edited, manifest[BundleOf(x)][x]} \/ Saving(x)'
    BY <1>4, <1>7 DEF FilesInv, FilesConsistent, ManifestComplete, Saving
  <2>2. QED
    BY <1>2, <2>1 DEF ManifestComplete, Saving
<1>10. IndexBacked'
  <2> SUFFICES ASSUME NEW v \in 1..MaxRevision, disk'["index"] = v
               PROVE  disk'[ModelOf(v)] # 0 /\ \A i \in DOMAIN Things(v) : disk'[Things(v)[i]] # 0
    BY DEF IndexBacked
  <2>1. "t1" \in Docs /\ "t2" \in Docs /\ "index" \in Docs /\ ModelOf(v) \in Docs
    BY DEF Docs, ModelOf
  <2>2. \A i \in DOMAIN Things(v) : Things(v)[i] \in Docs
    BY <2>1 DEF Things
  <2>3. disk["index"] = v
    BY <1>3, <1>4, <2>1 DEF Edited
  <2>4. disk[ModelOf(v)] # 0 /\ \A i \in DOMAIN Things(v) : disk[Things(v)[i]] # 0
    BY <2>3 DEF FilesInv, FilesConsistent, IndexBacked
  <2>5. QED
    BY <1>4, <2>1, <2>2, <2>4
<1>11. QED
  BY <1>4, <1>5, <1>6, <1>8, <1>9, <1>10 DEF FilesInv, FilesConsistent

\* The process ends: a document whose save was cut off is an orphan.
LEMMA ForgottenFiles ==
  ASSUME GatewayTypeOK, FilesInv, Forgotten, orphaned \subseteq orphaned',
         \A s \in Slots : job[s].stage = "save" =>
           \/ Head(job[s].left) \in orphaned'
           \/ manifest[job[s].bundle][Head(job[s].left)] = disk[Head(job[s].left)]
  PROVE  FilesInv'
<1>1. /\ job' = [s \in Slots |-> NoJob] /\ opened' = [b \in Owned |-> "none"]
      /\ UNCHANGED <<disk, manifest>>
  BY DEF Forgotten
<1>2. \A s \in Slots : job'[s] = NoJob /\ Placed(NoJob) /\ Written(NoJob, disk')
        /\ job'[s].stage # "save" /\ job'[s].stage \notin Active
  BY <1>1, NoJobPlaced
<1>3. Passed'
  BY <1>2 DEF Passed
<1>4. Alone'
  BY <1>2 DEF Alone
<1>5. Current'
  <2>1. \A x \in Docs : BundleOf(x) \in Owned
    BY DEF BundleOf, Owned
  <2>2. \A x \in Docs : opened'[BundleOf(x)] # "open"
    BY <1>1, <2>1
  <2>3. QED
    BY <1>2, <2>2 DEF Current
<1>6. IndexBacked'
  BY <1>1 DEF FilesInv, FilesConsistent, IndexBacked
<1>7. ASSUME NEW d \in Docs \ orphaned'
      PROVE  disk[d] \in {0, Edited, manifest[BundleOf(d)][d]}
  <2>1. disk[d] \in {0, Edited, manifest[BundleOf(d)][d]} \/ Saving(d)
    BY DEF FilesInv, FilesConsistent, ManifestComplete, Saving
  <2>2. CASE Saving(d)
    <3>1. PICK s \in Slots : job[s].stage = "save" /\ Head(job[s].left) = d
      BY <2>2 DEF Saving
    <3>2. BundleOf(d) = job[s].bundle
      BY <3>1, AtDocument DEF FilesInv, Passed, Active
    <3>3. QED
      BY <3>1, <3>2
  <2>3. QED
    BY <2>1, <2>2
<1>8. ManifestComplete'
  BY <1>1, <1>7 DEF ManifestComplete
<1>9. QED
  BY <1>3, <1>4, <1>5, <1>6, <1>8 DEF FilesInv, FilesConsistent

-----------------------------------------------------------------------------
\* What the end of a publication makes of the bridge.
LEMMA Settled ==
  ASSUME GatewayTypeOK, NEW s \in Slots, NEW ok \in BOOLEAN, Settle(s, ok)
  PROVE  /\ job' = [job EXCEPT ![s] = NoJob] /\ engine' = engine
         /\ \/ UNCHANGED <<life, closing>> /\ (s = "refresh" => starting' = starting)
               /\ starting' \in {starting, "done"}
            \/ /\ starting' = "cleaning" /\ s = "initial" /\ life' \in {"closing", "failed"}
               /\ closing' # "none" /\ (closing # "none" => closing' = closing) /\ closing' \in {"engine", closing}
<1>1. CASE s = "refresh"
  BY <1>1 DEF Settle
<1>2. CASE s # "refresh" /\ ok
  BY <1>2 DEF Settle
<1>3. CASE s # "refresh" /\ ~ok
  BY <1>3 DEF Settle, StartFails, Slots
<1>4. QED
  BY <1>1, <1>2, <1>3

\* Each step of a publication settles it or takes it further.
Further(s) ==
  \/ \E ok \in BOOLEAN : Settle(s, ok)
  \/ /\ \E j \in JobType : job' = [job EXCEPT ![s] = j]
     /\ UNCHANGED <<life, starting, closing, engine>>

LEMMA StageMoves ==
  ASSUME GatewayTypeOK, NEW s \in Slots, NEW x \in {"check", "write", "save"},
         job' = [job EXCEPT ![s].stage = x], UNCHANGED <<life, starting, closing, engine>>
  PROVE  Further(s)
<1> DEFINE j == [stage |-> x, bundle |-> job[s].bundle, rev |-> job[s].rev, left |-> job[s].left]
<1>1. j \in JobType /\ job' = [job EXCEPT ![s] = j]
  BY JobShapes DEF JobType, Active
<1> HIDE DEF j
<1>2. QED
  BY <1>1 DEF Further

LEMMA BatchMoves ==
  ASSUME GatewayTypeOK, FilesInv, NEW s \in Slots, Batch(s)
  PROVE  Further(s) /\ job[s] # NoJob /\ UNCHANGED <<directoryVars, mode>>
<1>1. job[s].stage # "idle" /\ UNCHANGED <<directoryVars, mode>>
  BY DEF Batch, Begin, Check, WriteDocument, WriteFails, Save, SaveFails, Hosted, Reconciled, bridge
<1>2. job[s] # NoJob
  BY <1>1, NoJobPlaced
<1>3. ASSUME Begin(s) PROVE Further(s)
  <2>1. Settle(s, FALSE) \/ (job' = [job EXCEPT ![s].stage = "check"] /\ UNCHANGED <<life, starting, closing, engine>>)
    BY <1>3 DEF Begin
  <2>2. QED
    BY <2>1, StageMoves DEF Further
<1>4. ASSUME Check(s) PROVE Further(s)
  <2>1. \/ Settle(s, FALSE)
        \/ job' = [job EXCEPT ![s].stage = "save"] /\ UNCHANGED <<life, starting, closing, engine>>
        \/ job' = [job EXCEPT ![s].stage = "write"] /\ UNCHANGED <<life, starting, closing, engine>>
    BY <1>4 DEF Check
  <2>2. QED
    BY <2>1, StageMoves DEF Further
<1>5. ASSUME WriteDocument(s) PROVE Further(s)
  <2>1. job' = [job EXCEPT ![s].stage = "save"] /\ UNCHANGED <<life, starting, closing, engine>>
    BY <1>5 DEF WriteDocument, bridge
  <2>2. QED
    BY <2>1, StageMoves
<1>6. ASSUME WriteFails(s) PROVE Further(s)
  BY <1>6 DEF WriteFails, Further
<1>7. ASSUME SaveFails(s) PROVE Further(s)
  BY <1>7 DEF SaveFails, Further
<1>8. ASSUME Reconciled(s) PROVE Further(s)
  BY <1>8 DEF Reconciled, Further
<1>9. ASSUME Hosted(s) PROVE Further(s)
  <2> DEFINE v == job[s].rev
             j == [stage |-> "begin", bundle |-> "things", rev |-> v, left |-> Documents("things", v)]
  <2>1. Settle(s, FALSE) \/ (job' = [job EXCEPT ![s] = j] /\ UNCHANGED <<life, starting, closing, engine>>)
    BY <1>9 DEF Hosted
  <2>2. j \in JobType
    BY JobShapes, Documented DEF JobType, Bundles
  <2> HIDE DEF j
  <2>3. QED
    BY <2>1, <2>2 DEF Further
<1>10. ASSUME Save(s) PROVE Further(s)
  <2> DEFINE rest == Tail(job[s].left)
             j(x) == [stage |-> x, bundle |-> job[s].bundle, rev |-> job[s].rev, left |-> rest]
  <2>1. rest \in Seq(Docs)
    BY <1>10, AtDocument DEF Save, Active, FilesInv, Passed
  <2>2. \/ Settle(s, TRUE)
        \/ /\ UNCHANGED <<life, starting, closing, engine>>
           /\ \E x \in {"check", "hosted"} : job' = [job EXCEPT ![s].left = rest, ![s].stage = x]
    BY <1>10, Zenon DEF Save, Advance
  <2>3. ASSUME NEW x \in {"check", "hosted"} PROVE j(x) \in JobType
    BY <2>1, JobShapes DEF JobType, Active
  <2>4. ASSUME NEW x \in {"check", "hosted"}, job' = [job EXCEPT ![s].left = rest, ![s].stage = x]
        PROVE  job' = [job EXCEPT ![s] = j(x)]
    <3> HIDE DEF rest
    <3>1. \A y \in {"check", "hosted"}, l \in Seq(Docs) : [job EXCEPT ![s].left = l, ![s].stage = y] =
            [job EXCEPT ![s] = [stage |-> y, bundle |-> job[s].bundle, rev |-> job[s].rev, left |-> l]]
      BY JobShapes
    <3>2. QED
      BY <2>1, <2>4, <3>1, Zenon
  <2> HIDE DEF j
  <2>5. QED
    BY <2>2, <2>3, <2>4 DEF Further
<1>11. QED
  BY <1>1, <1>2, <1>3, <1>4, <1>5, <1>6, <1>7, <1>8, <1>9, <1>10 DEF Batch

BridgeTypes ==
  /\ life \in {"new", "starting", "running", "closing", "failed", "closed"}
  /\ starting \in {"none", "publisher", "engine", "publishing", "cleaning", "done", "failed"}
  /\ closing \in {"none", "engine", "publisher", "closed"}
  /\ engine \in {"none", "running", "closed"}
  /\ job \in [Slots -> JobType]

\* A publication in flight keeps close() from its last step.
LEMMA BatchCloses ==
  ASSUME GatewayTypeOK, FilesInv, Closing, NEW s \in Slots, Batch(s)
  PROVE  Closing' /\ BridgeTypes'
<1>1. Further(s) /\ job[s] # NoJob /\ UNCHANGED <<at, mode>>
  BY BatchMoves DEF directoryVars, locals
<1>2. /\ closing # "closed"
      /\ closing = "publisher" => s = "initial" /\ engine # "running"
      /\ NoJob \in JobType
  BY <1>1, JobShapes DEF Closing, NothingAfterClose, Slots
<1>3. CASE \E ok \in BOOLEAN : Settle(s, ok)
  <2>1. PICK ok \in BOOLEAN : Settle(s, ok)
    BY <1>3
  <2>2. job' = [job EXCEPT ![s] = NoJob] /\ engine' = engine
    BY <2>1, Settled
  <2>3. \/ UNCHANGED <<life, closing>> /\ (s = "refresh" => starting' = starting) /\ starting' \in {starting, "done"}
        \/ /\ starting' = "cleaning" /\ s = "initial" /\ life' \in {"closing", "failed"}
           /\ closing' # "none" /\ (closing # "none" => closing' = closing) /\ closing' \in {"engine", closing}
    BY <2>1, Settled
  <2>4. /\ job' \in [Slots -> JobType] /\ job'[s] = NoJob
        /\ \A o \in Slots \ {s} : job'[o] = job[o]
    BY <1>2, <2>2, Moves
  <2>5. BridgeTypes'
    BY <2>2, <2>3, <2>4 DEF BridgeTypes, GatewayTypeOK
  <2>6. closing' # "closed" /\ (closing' = "publisher" => closing = "publisher")
    BY <1>2, <2>3
  <2>7. job'["initial"] # NoJob => starting' = "publishing"
    BY <2>3, <2>4 DEF Closing, Slots
  <2>8. closing' # "none" => life' \in {"closing", "failed", "closed"}
    BY <2>3 DEF Closing
  <2>9. closing' \in {"publisher", "closed"} => engine' # "running" /\ job'["refresh"] = NoJob
    BY <1>2, <2>2, <2>4, <2>6 DEF Closing, Slots
  <2>10. QED
    BY <1>1, <2>5, <2>6, <2>7, <2>8, <2>9 DEF Closing
<1>4. CASE /\ \E j \in JobType : job' = [job EXCEPT ![s] = j]
           /\ UNCHANGED <<life, starting, closing, engine>>
  <2>1. PICK j \in JobType : job' = [job EXCEPT ![s] = j]
    BY <1>4
  <2>2. job' \in [Slots -> JobType] /\ \A o \in Slots \ {s} : job'[o] = job[o]
    BY <2>1, Moves
  <2>3. BridgeTypes'
    BY <1>4, <2>2 DEF BridgeTypes, GatewayTypeOK
  <2>4. QED
    BY <1>1, <1>2, <1>4, <2>2, <2>3 DEF Closing, Slots
<1>5. QED
  BY <1>1, <1>3, <1>4 DEF Further

\* What a publication does to the files keeps their types.
LEMMA BatchTypes ==
  ASSUME GatewayTypeOK, FilesInv, Closing, NEW s \in Slots, Batch(s)
  PROVE  GatewayTypeOK' /\ FilesInv'
<1>1. BridgeTypes'
  BY BatchCloses
<1>2. published' \in Nat /\ launches' \in Nat /\ faults' \in Nat
  <2>1. /\ UNCHANGED <<published, launches>> /\ (faults' = faults \/ faults' = faults + 1)
    BY DEF Batch, Begin, Check, WriteDocument, WriteFails, Save, SaveFails, Hosted, Reconciled, counts
  <2>2. QED
    BY <2>1 DEF GatewayTypeOK
<1>3. /\ FilesInv' /\ disk' \in [Docs -> Hashes] /\ manifest' \in [Owned -> [Docs -> Hashes]]
      /\ entries' \in [Owned -> [Docs -> Hashes]] /\ known' \in [Owned -> BOOLEAN]
      /\ opened' \in [Owned -> {"none", "open", "failed"}] /\ locked' \subseteq Owned /\ orphaned' \subseteq Docs
  <2>0. /\ disk \in [Docs -> Hashes] /\ manifest \in [Owned -> [Docs -> Hashes]]
        /\ entries \in [Owned -> [Docs -> Hashes]] /\ known \in [Owned -> BOOLEAN]
        /\ opened \in [Owned -> {"none", "open", "failed"}] /\ locked \subseteq Owned /\ orphaned \subseteq Docs
    BY DEF GatewayTypeOK
  <2>1. CASE Begin(s)
    <3>1. FilesInv'
      BY <2>1, BeginFiles
    <3>2. UNCHANGED <<disk, manifest, orphaned>> /\ (UNCHANGED <<locked, memory>> \/ Lock(job[s].bundle))
      BY <2>1 DEF Begin
    <3>3. job[s].bundle \in Owned
      BY JobShapes DEF Bundles, Owned
    <3>4. CASE UNCHANGED <<locked, memory>>
      BY <2>0, <3>1, <3>2, <3>4 DEF memory
    <3>5. CASE Lock(job[s].bundle)
      BY <2>0, <3>1, <3>2, <3>3, <3>5, LockChanges
    <3>6. QED
      BY <3>2, <3>4, <3>5
  <2>2. CASE Check(s)
    <3>1. UNCHANGED <<disk, manifest, locked, orphaned, known, opened>>
      BY <2>2 DEF Check, files
    <3>2. QED
      BY <2>0, <2>2, <3>1, CheckFiles
  <2>3. CASE WriteDocument(s)
    <3>1. UNCHANGED <<manifest, locked, orphaned, known, opened>>
      BY <2>3 DEF WriteDocument
    <3>2. QED
      BY <2>0, <2>3, <3>1, WriteFiles
  <2>4. CASE WriteFails(s)
    <3>1. UNCHANGED <<manifest, locked, entries, known, opened>>
      BY <2>4 DEF WriteFails, memory
    <3>2. QED
      BY <2>0, <2>4, <3>1, WriteFailsFiles
  <2>5. CASE Save(s)
    <3>1. UNCHANGED <<disk, locked, entries, known, opened>>
      BY <2>5 DEF Save, memory
    <3>2. QED
      BY <2>0, <2>5, <3>1, SaveFiles
  <2>6. CASE SaveFails(s)
    <3>1. UNCHANGED <<disk, locked, entries, opened>>
      BY <2>6 DEF SaveFails
    <3>2. QED
      BY <2>0, <2>6, <3>1, SaveFailsFiles
  <2>7. CASE Hosted(s)
    <3>1. UNCHANGED <<disk, manifest, locked, orphaned, entries, known, opened>>
      BY <2>7 DEF Hosted, files, memory
    <3>2. QED
      BY <2>0, <2>7, <3>1, HostedFiles
  <2>8. CASE Reconciled(s)
    <3>1. UNCHANGED <<disk, manifest, locked, orphaned, entries, known, opened>> /\ job[s].stage # "save"
      BY <2>8 DEF Reconciled, files, memory
    <3>2. job' = [job EXCEPT ![s] = NoJob]
      BY <2>8 DEF Reconciled, Settle
    <3>3. QED
      BY <2>0, <3>1, <3>2, Idled
  <2>9. QED
    BY <2>1, <2>2, <2>3, <2>4, <2>5, <2>6, <2>7, <2>8 DEF Batch
<1>4. QED
  BY <1>1, <1>2, <1>3 DEF GatewayTypeOK, BridgeTypes, JobType

-----------------------------------------------------------------------------
\* The state of the bridge and of its files, as far as the steps of its
\* lifecycle leave it alone.
storeView == <<published, disk, manifest, orphaned, launches, faults>>
stashView == <<locked, entries, known, opened>>

LEMMA StoreSame ==
  ASSUME GatewayTypeOK, UNCHANGED <<storeView, stashView>>, BridgeTypes'
  PROVE  GatewayTypeOK'
<1>1. UNCHANGED <<published, launches, faults>>
  BY DEF storeView
<1>2. UNCHANGED <<disk, manifest, orphaned, locked, entries, known, opened>>
  BY DEF storeView, stashView
<1>3. QED
  BY <1>1, <1>2 DEF GatewayTypeOK, BridgeTypes, JobType

LEMMA BridgeTyped ==
  ASSUME GatewayTypeOK
  PROVE  BridgeTypes
  BY DEF GatewayTypeOK, BridgeTypes, JobType

LEMMA InitGateway ==
  ASSUME Init
  PROVE  GatewayInv
<1>1. /\ at = "idle" /\ list = NoList /\ attempt = 0 /\ current = Nothing /\ stale = 0 /\ created = FALSE
      /\ changes = 0 /\ losses = 0 /\ revision = 0 /\ probe = Nothing
      /\ agreed \subseteq {"etag", "ttl", "patch", "roundtrip", "revision"} /\ collection \subseteq Ids
  BY DirectoryAssumption DEF Init, DirectoryInit
<1>2. DirectoryInv
  <2>1. NoList \in [page : Nat, offset : Nat, previous : Int, ids : SUBSET Ids, revision : Int,
                    base : SUBSET Ids, restart : Nat] /\ Nothing \in Records
    BY DEF NoList, Nothing, Records
  <2>2. DirectoryTypeOK
    <3>1. {revision, attempt, stale, changes, losses} \subseteq Nat /\ created \in BOOLEAN /\ at = "idle"
      <4>1. revision \in Nat /\ attempt \in Nat /\ stale \in Nat /\ changes \in Nat /\ losses \in Nat
        BY <1>1
      <4>2. created \in BOOLEAN
        BY <1>1, Zenon
      <4>3. QED
        BY <1>1, <4>1, <4>2
    <3>2. {probe, current} \subseteq Records
      BY <1>1, <2>1, Zenon
    <3>3. list \in [page : Nat, offset : Nat, previous : Int, ids : SUBSET Ids, revision : Int,
                    base : SUBSET Ids, restart : Nat]
      BY <1>1, <2>1, Zenon
    <3>4. QED
      BY <1>1, <3>1, <3>2, <3>3 DEF DirectoryTypeOK
  <2>3. ListConsistent /\ Gathered
    BY <1>1 DEF ListConsistent, Gathered, Listing, NoList
  <2>4. Probed /\ Excluded /\ Removable
    BY <1>1 DEF Probed, Excluded, Removable, Alive, Nothing, Ended
  <2>5. QED
    BY <2>2, <2>3, <2>4 DEF DirectoryInv
<1>3. /\ life = "new" /\ starting = "none" /\ closing = "none" /\ engine = "none"
      /\ job = [s \in Slots |-> NoJob] /\ published = 0
      /\ disk = NoFiles /\ manifest = [b \in Owned |-> NoFiles] /\ locked = {} /\ orphaned = {}
      /\ entries = [b \in Owned |-> NoFiles] /\ known = [b \in Owned |-> FALSE]
      /\ opened = [b \in Owned |-> "none"] /\ launches = 0 /\ faults = 0
  BY DEF Init
<1>4. GatewayTypeOK
  <2>1. NoFiles \in [Docs -> Hashes]
    BY DEF NoFiles, Hashes
  <2>2. job \in [Slots -> JobType]
    <3>1. NoJob \in JobType
      <4>1. <<>> \in Seq(Docs)
        OBVIOUS
      <4>2. QED
        BY <4>1 DEF NoJob, JobType, Bundles
    <3>2. QED
      BY <1>3, <3>1
  <2>3. /\ manifest \in [Owned -> [Docs -> Hashes]] /\ entries \in [Owned -> [Docs -> Hashes]]
        /\ disk \in [Docs -> Hashes]
    BY <1>3, <2>1
  <2>4. known \in [Owned -> BOOLEAN] /\ opened \in [Owned -> {"none", "open", "failed"}]
    BY <1>3
  <2>5. QED
    BY <1>3, <2>2, <2>3, <2>4 DEF GatewayTypeOK, JobType
<1>5. FilesInv
  <2>1. \A s \in Slots : job[s] = NoJob /\ Placed(job[s]) /\ Written(job[s], disk)
          /\ job[s].stage # "save" /\ job[s].stage \notin Active
    BY <1>3, NoJobPlaced
  <2>2. Passed /\ Alone
    BY <2>1 DEF Passed, Alone
  <2>3. \A d \in Docs : disk[d] = 0 /\ BundleOf(d) \in Owned
    BY <1>3 DEF NoFiles, BundleOf, Owned
  <2>4. Current
    BY <1>3, <2>1, <2>3 DEF Current
  <2>5. IndexBacked /\ ManifestComplete
    <3>1. "index" \in Docs
      BY DEF Docs
    <3>2. IndexBacked
      BY <2>3, <3>1 DEF IndexBacked
    <3>3. QED
      BY <2>3, <3>2 DEF ManifestComplete
  <2>6. QED
    BY <2>2, <2>4, <2>5 DEF FilesInv, FilesConsistent
<1>6. Closing
  BY <1>1, <1>3 DEF Closing, Slots
<1>7. QED
  BY <1>2, <1>4, <1>5, <1>6 DEF GatewayInv

LEMMA StartStep ==
  ASSUME GatewayInv, Start
  PROVE  GatewayInv'
<1>1. DirectoryInv /\ GatewayTypeOK /\ FilesInv /\ Closing
  BY DEF GatewayInv
<1>2. /\ life = "new" /\ starting = "none" /\ closing = "none"
      /\ UNCHANGED <<mode, job, published, disk, manifest, orphaned, launches, faults>>
  BY DEF Start, counts
<1>3. \A s \in Slots : job[s].bundle \in Bundles
  BY <1>1, JobShapes
<1>4. CASE "directory" \in mode
  <2>1. Lock("state") /\ "state" \in Owned
    BY <1>4, Zenon DEF Start, Owned
  <2>2. \/ starting' = "publisher" /\ life' = "starting" /\ Preflight /\ UNCHANGED <<closing, engine>>
        \/ StartFails /\ UNCHANGED directoryVars
    BY <1>4 DEF Start
  <2>3. DirectoryInv'
    BY <1>1, <2>2, PreflightStep, DirectorySame
  <2>4. /\ starting' \in {"publisher", "cleaning"} /\ life' \in {"starting", "closing"}
        /\ engine' = engine
        /\ closing' = "none" \/ (closing' = "engine" /\ life' = "closing")
    BY <1>2, <2>2 DEF StartFails
  <2>5. BridgeTypes'
    BY <1>1, <1>2, <2>4, BridgeTyped DEF BridgeTypes
  <2>6. /\ opened' \in [Owned -> {"none", "open", "failed"}] /\ entries' \in [Owned -> [Docs -> Hashes]]
        /\ locked' \subseteq Owned /\ known' \in [Owned -> BOOLEAN]
        /\ \A c \in Owned \ {"state"} : opened'[c] = opened[c] /\ entries'[c] = entries[c]
    BY <1>1, <2>1, LockChanges
  <2>7. GatewayTypeOK'
    <3>1. /\ published' \in Nat /\ launches' \in Nat /\ faults' \in Nat /\ disk' \in [Docs -> Hashes]
          /\ manifest' \in [Owned -> [Docs -> Hashes]] /\ orphaned' \subseteq Docs
      BY <1>1, <1>2 DEF GatewayTypeOK
    <3>2. QED
      BY <2>5, <2>6, <3>1 DEF GatewayTypeOK, BridgeTypes, JobType
  <2>8. FilesInv'
    <3>1. \A d \in Docs : BundleOf(d) \in Owned \ {"state"}
      BY DEF BundleOf, Owned
    <3>2. \A s \in Slots : job[s].bundle \in Owned \ {"state"}
      BY <1>3 DEF Bundles, Owned
    <3>3. Passed'
      BY <1>1, <1>2 DEF FilesInv, Passed
    <3>4. Alone'
      BY <1>1, <1>2, <2>6, <3>2 DEF FilesInv, Alone
    <3>5. Current'
      BY <1>1, <1>2, <2>6, <3>1, <3>2 DEF FilesInv, Current, Saving
    <3>6. FilesConsistent'
      BY <1>1, <1>2 DEF FilesInv, FilesConsistent, IndexBacked, ManifestComplete
    <3>7. QED
      BY <3>3, <3>4, <3>5, <3>6 DEF FilesInv
  <2>9. Closing'
    BY <1>1, <1>2, <1>4, <2>4 DEF Closing
  <2>10. QED
    BY <2>3, <2>7, <2>8, <2>9 DEF GatewayInv
<1>5. CASE "directory" \notin mode
  <2>1. /\ starting' = "engine" /\ life' = "starting" /\ closing' = closing
        /\ engine' \in {"running", engine} /\ UNCHANGED <<directoryVars, locked, entries, known, opened>>
    BY <1>5 DEF Start, Engage, memory
  <2>2. DirectoryInv'
    BY <1>1, <2>1, DirectorySame
  <2>3. BridgeTypes'
    BY <1>1, <1>2, <2>1, BridgeTyped DEF BridgeTypes
  <2>4. GatewayTypeOK'
    BY <1>1, <1>2, <2>1, <2>3, StoreSame DEF storeView, stashView
  <2>5. FilesInv'
    BY <1>1, <1>2, <2>1, FilesSame DEF filesView
  <2>6. Closing'
    BY <1>1, <1>2, <2>1 DEF Closing, directoryVars
  <2>7. QED
    BY <2>2, <2>4, <2>5, <2>6 DEF GatewayInv
<1>6. QED
  BY <1>4, <1>5

\* The steps of the bridge's own lifecycle, which leave the files alone.
LEMMA LifecycleStep ==
  ASSUME GatewayInv, Lifecycle
  PROVE  GatewayInv'
<1>1. DirectoryInv /\ GatewayTypeOK /\ FilesInv /\ Closing /\ BridgeTypes
  BY BridgeTyped DEF GatewayInv
<1>2. UNCHANGED <<directoryVars, mode, disk, manifest, orphaned, entries, known, opened, launches, faults>>
  BY DEF Lifecycle, PublisherStarted, EngineStarted, Cleaned, EngineClosed, PublisherClosed, files, memory, counts
<1>3. DirectoryInv' /\ UNCHANGED <<at, mode>>
  BY <1>1, <1>2, DirectorySame DEF directoryVars
<1>4. CASE PublisherStarted
  <2>1. /\ starting = "publisher" /\ UNCHANGED <<job, published, locked>>
        /\ \/ closing = "none" /\ starting' = "engine" /\ engine' \in {"running", engine} /\ UNCHANGED <<life, closing>>
           \/ StartFails
    BY <1>4 DEF PublisherStarted, Engage, Open, files
  <2>2. \/ closing = "none" /\ starting' = "engine" /\ engine' \in {"running", engine} /\ UNCHANGED <<life, closing>>
        \/ starting' = "cleaning" /\ engine' = engine /\ life' \in {"closing", "failed"}
           /\ closing' = IF closing = "none" THEN "engine" ELSE closing
    BY <2>1 DEF StartFails
  <2>3. BridgeTypes'
    BY <1>1, <2>1, <2>2 DEF BridgeTypes
  <2>4. GatewayTypeOK' /\ FilesInv'
    BY <1>1, <1>2, <2>1, <2>3, StoreSame, FilesSame DEF storeView, stashView, filesView
  <2>5. Closing'
    <3>1. CASE closing = "none"
      BY <1>1, <1>2, <1>3, <2>1, <2>2, <3>1 DEF Closing
    <3>2. CASE closing # "none"
      BY <1>1, <1>2, <1>3, <2>1, <2>2, <3>2 DEF Closing, NothingAfterClose
    <3>3. QED
      BY <3>1, <3>2
  <2>6. QED
    BY <1>3, <2>4, <2>5 DEF GatewayInv
<1>5. CASE EngineStarted
  <2>1. /\ starting = "engine" /\ UNCHANGED locked
        /\ \/ StartFails /\ UNCHANGED <<job, published>>
           \/ /\ closing = "none" /\ starting' = "publishing" /\ life' = "running" /\ UNCHANGED <<closing, engine>>
              /\ \E v \in Revisions : published' = v /\ job' = [job EXCEPT !["initial"] = Publication(v)]
    BY <1>5 DEF EngineStarted, Open, files
  <2>2. job["initial"] = NoJob /\ "initial" \in Slots
    BY <1>1, <2>1 DEF Closing, Slots
  <2>3. CASE StartFails /\ UNCHANGED <<job, published>>
    <3>1. /\ starting' = "cleaning" /\ engine' = engine /\ life' \in {"closing", "failed"}
          /\ closing' = IF closing = "none" THEN "engine" ELSE closing
      BY <2>3 DEF StartFails
    <3>2. BridgeTypes'
      BY <1>1, <2>3, <3>1 DEF BridgeTypes
    <3>3. GatewayTypeOK' /\ FilesInv'
      BY <1>1, <1>2, <2>1, <2>3, <3>2, StoreSame, FilesSame DEF storeView, stashView, filesView
    <3>4. Closing'
      <4>1. CASE closing = "none"
        BY <1>1, <1>2, <1>3, <2>1, <2>2, <2>3, <3>1, <4>1 DEF Closing
      <4>2. CASE closing # "none"
        BY <1>1, <1>2, <1>3, <2>1, <2>2, <2>3, <3>1, <4>2 DEF Closing, NothingAfterClose
      <4>3. QED
        BY <4>1, <4>2
    <3>5. QED
      BY <1>3, <3>3, <3>4 DEF GatewayInv
  <2>4. CASE /\ closing = "none" /\ starting' = "publishing" /\ life' = "running" /\ UNCHANGED <<closing, engine>>
             /\ \E v \in Revisions : published' = v /\ job' = [job EXCEPT !["initial"] = Publication(v)]
    <3>1. FilesInv' /\ job' \in [Slots -> JobType] /\ published' \in Nat
      BY <1>1, <1>2, <2>2, <2>4, PublishFiles
    <3>2. BridgeTypes'
      BY <1>1, <2>4, <3>1 DEF BridgeTypes
    <3>3. GatewayTypeOK'
      BY <1>1, <1>2, <2>1, <3>1, <3>2 DEF GatewayTypeOK, BridgeTypes, JobType
    <3>4. Closing'
      BY <1>1, <1>2, <1>3, <2>4 DEF Closing
    <3>5. QED
      BY <1>3, <3>1, <3>3, <3>4 DEF GatewayInv
  <2>5. QED
    BY <2>1, <2>3, <2>4
<1>6. CASE Cleaned
  <2>1. starting = "cleaning" /\ starting' = "failed" /\ UNCHANGED <<life, closing, engine, job, published, locked>>
    BY <1>6 DEF Cleaned, files
  <2>2. BridgeTypes'
    BY <1>1, <2>1 DEF BridgeTypes
  <2>3. GatewayTypeOK' /\ FilesInv'
    BY <1>1, <1>2, <2>1, <2>2, StoreSame, FilesSame DEF storeView, stashView, filesView
  <2>4. Closing'
    BY <1>1, <1>2, <1>3, <2>1 DEF Closing, NothingAfterClose
  <2>5. QED
    BY <1>3, <2>3, <2>4 DEF GatewayInv
<1>7. CASE EngineClosed
  <2>1. /\ closing = "engine" /\ job["refresh"] = NoJob /\ closing' = "publisher"
        /\ engine' = (IF engine = "running" THEN "closed" ELSE engine)
        /\ UNCHANGED <<life, starting, job, published, locked>>
    BY <1>7 DEF EngineClosed, files
  <2>2. BridgeTypes'
    BY <1>1, <2>1 DEF BridgeTypes
  <2>3. GatewayTypeOK' /\ FilesInv'
    BY <1>1, <1>2, <2>1, <2>2, StoreSame, FilesSame DEF storeView, stashView, filesView
  <2>4. Closing'
    BY <1>1, <1>2, <1>3, <2>1 DEF Closing
  <2>5. QED
    BY <1>3, <2>3, <2>4 DEF GatewayInv
<1>8. CASE PublisherClosed
  <2>1. /\ closing = "publisher" /\ job["initial"] = NoJob /\ at \in Ended \cup {"idle"}
        /\ closing' = "closed" /\ life' = "closed" /\ locked' = {b \in locked : opened[b] # "open"}
        /\ UNCHANGED <<starting, engine, job, published>>
    BY <1>8 DEF PublisherClosed
  <2>2. BridgeTypes'
    BY <1>1, <2>1 DEF BridgeTypes
  <2>3. GatewayTypeOK' /\ FilesInv'
    <3>1. locked' \subseteq Owned
      BY <1>1, <2>1 DEF GatewayTypeOK
    <3>2. GatewayTypeOK'
      BY <1>1, <1>2, <2>1, <2>2, <3>1 DEF GatewayTypeOK, BridgeTypes, JobType
    <3>3. QED
      BY <1>1, <1>2, <2>1, <3>2, FilesSame DEF filesView
  <2>4. Closing'
    <3>1. engine # "running" /\ \A s \in Slots : job[s] = NoJob
      BY <1>1, <2>1 DEF Closing, Slots
    <3>2. \A b \in locked' : opened[b] # "open"
      BY <2>1
    <3>3. NothingAfterClose'
      BY <1>2, <1>3, <2>1, <3>1, <3>2 DEF NothingAfterClose
    <3>4. QED
      BY <1>1, <1>3, <2>1, <3>1, <3>3 DEF Closing, Slots
  <2>5. QED
    BY <1>3, <2>3, <2>4 DEF GatewayInv
<1>9. QED
  BY <1>4, <1>5, <1>6, <1>7, <1>8 DEF Lifecycle

\* The process ends, by a crash or after close(), and is launched again.
LEMMA RelaunchStep ==
  ASSUME GatewayInv, Crash \/ Relaunch
  PROVE  GatewayInv'
<1>1. DirectoryInv /\ GatewayTypeOK /\ FilesInv /\ Closing
  BY DEF GatewayInv
<1>2. /\ Forgotten /\ orphaned \subseteq orphaned' /\ locked' \in {locked, {}}
      /\ losses' = losses + 1 \/ (losses' = losses /\ at \in Ended \cup {"idle"})
  <2>1. CASE Crash
    BY <2>1 DEF Crash
  <2>2. CASE Relaunch
    BY <1>1, <2>2 DEF Relaunch, Closing, NothingAfterClose
  <2>3. QED
    BY <2>1, <2>2
<1>3. /\ launches' = launches + 1 /\ life' = "new" /\ starting' = "none" /\ closing' = "none" /\ engine' = "none"
      /\ job' = [s \in Slots |-> NoJob] /\ opened' = [b \in Owned |-> "none"]
      /\ entries' = [b \in Owned |-> NoFiles] /\ known' = [b \in Owned |-> FALSE]
      /\ UNCHANGED <<mode, published, disk, manifest, faults>> /\ at' = "idle"
  BY <1>2 DEF Forgotten
<1>4. DirectoryInv'
  BY <1>1, <1>2, ForgetsStep DEF Forgotten, Forgets
<1>5. ASSUME NEW s \in Slots, job[s].stage = "save"
      PROVE  \/ Head(job[s].left) \in orphaned'
             \/ manifest[job[s].bundle][Head(job[s].left)] = disk[Head(job[s].left)]
  <2>1. CASE Crash
    BY <1>5, <2>1 DEF Crash
  <2>2. CASE Relaunch
    BY <1>1, <1>5, <2>2, NoJobPlaced DEF Relaunch, Closing, NothingAfterClose
  <2>3. QED
    BY <2>1, <2>2
<1>6. FilesInv'
  BY <1>1, <1>2, <1>5, ForgottenFiles
<1>7. orphaned' \subseteq Docs
  <2>1. CASE Crash
    <3>1. \A s \in Slots : job[s].stage = "save" => Head(job[s].left) \in Docs
      BY <1>1, AtDocument DEF FilesInv, Passed, Active
    <3>2. QED
      BY <1>1, <2>1, <3>1 DEF Crash, GatewayTypeOK
  <2>2. CASE Relaunch
    BY <1>1, <2>2 DEF Relaunch, GatewayTypeOK
  <2>3. QED
    BY <2>1, <2>2
<1>8. GatewayTypeOK'
  <2>1. NoFiles \in [Docs -> Hashes]
    BY DEF NoFiles, Hashes
  <2>2. job' \in [Slots -> JobType]
    <3>1. NoJob \in JobType
      <4>1. <<>> \in Seq(Docs)
        OBVIOUS
      <4>2. QED
        BY <4>1 DEF NoJob, JobType, Bundles
    <3>2. QED
      BY <1>3, <3>1
  <2>3. entries' \in [Owned -> [Docs -> Hashes]] /\ known' \in [Owned -> BOOLEAN]
        /\ opened' \in [Owned -> {"none", "open", "failed"}]
    BY <1>3, <2>1
  <2>4. locked' \subseteq Owned /\ published' \in Nat /\ launches' \in Nat /\ faults' \in Nat
        /\ disk' \in [Docs -> Hashes] /\ manifest' \in [Owned -> [Docs -> Hashes]]
    BY <1>1, <1>2, <1>3 DEF GatewayTypeOK
  <2>5. QED
    BY <1>3, <1>7, <2>2, <2>3, <2>4 DEF GatewayTypeOK, JobType
<1>9. Closing'
  BY <1>3 DEF Closing, Slots
<1>10. QED
  BY <1>4, <1>6, <1>8, <1>9 DEF GatewayInv

LEMMA PublicationStep ==
  ASSUME GatewayInv, Reconcile
  PROVE  GatewayInv'
<1>1. DirectoryInv /\ GatewayTypeOK /\ FilesInv /\ Closing /\ BridgeTypes
  BY BridgeTyped DEF GatewayInv
<1>2. /\ life = "running" /\ job["refresh"] = NoJob /\ "refresh" \in Slots
      /\ UNCHANGED <<directoryVars, mode, life, starting, closing, engine, disk, manifest, locked, orphaned,
                     entries, known, opened, launches, faults>>
      /\ \E v \in Revisions : published' = v /\ job' = [job EXCEPT !["refresh"] = Publication(v)]
  BY DEF Reconcile, bridge, files, memory, counts, Slots
<1>3. DirectoryInv' /\ UNCHANGED <<at, mode>>
  BY <1>1, <1>2, DirectorySame DEF directoryVars
<1>4. closing = "none"
  BY <1>1, <1>2 DEF Closing
<1>5. FilesInv' /\ job' \in [Slots -> JobType] /\ published' \in Nat
  BY <1>1, <1>2, PublishFiles
<1>6. GatewayTypeOK'
  BY <1>1, <1>2, <1>5 DEF GatewayTypeOK, JobType
<1>7. job'["initial"] = job["initial"]
  BY <1>1, <1>2 DEF BridgeTypes, Slots
<1>8. Closing'
  BY <1>1, <1>2, <1>3, <1>4, <1>7 DEF Closing
<1>9. QED
  BY <1>3, <1>5, <1>6, <1>8 DEF GatewayInv

LEMMA CloseStep ==
  ASSUME GatewayInv, Close
  PROVE  GatewayInv'
<1>1. DirectoryInv /\ GatewayTypeOK /\ FilesInv /\ Closing /\ BridgeTypes
  BY BridgeTyped DEF GatewayInv
<1>2. /\ closing = "none" /\ closing' = "engine" /\ life' = "closing"
      /\ UNCHANGED <<directoryVars, mode, starting, engine, job, published, disk, manifest, locked, orphaned,
                     entries, known, opened, launches, faults>>
  BY DEF Close, files, memory, counts
<1>3. DirectoryInv' /\ UNCHANGED <<at, mode>>
  BY <1>1, <1>2, DirectorySame DEF directoryVars
<1>4. BridgeTypes'
  BY <1>1, <1>2 DEF BridgeTypes
<1>5. GatewayTypeOK' /\ FilesInv'
  BY <1>1, <1>2, <1>4, StoreSame, FilesSame DEF storeView, stashView, filesView
<1>6. Closing'
  BY <1>1, <1>2, <1>3 DEF Closing
<1>7. QED
  BY <1>3, <1>5, <1>6 DEF GatewayInv

LEMMA EditStep ==
  ASSUME GatewayInv, Edit
  PROVE  GatewayInv'
<1>1. DirectoryInv /\ GatewayTypeOK /\ FilesInv /\ Closing
  BY DEF GatewayInv
<1>2. /\ faults' = faults + 1
      /\ UNCHANGED <<directoryVars, mode, life, starting, closing, engine, job, published, manifest, locked, orphaned,
                     entries, known, opened, launches>>
  BY DEF Edit, bridge, memory
<1>3. DirectoryInv' /\ UNCHANGED <<at, mode>>
  BY <1>1, <1>2, DirectorySame DEF directoryVars
<1>4. FilesInv' /\ disk' \in [Docs -> Hashes]
  BY <1>1, EditFiles
<1>5. GatewayTypeOK'
  BY <1>1, <1>2, <1>4 DEF GatewayTypeOK
<1>6. Closing'
  BY <1>1, <1>2, <1>3 DEF Closing, NothingAfterClose
<1>7. QED
  BY <1>3, <1>4, <1>5, <1>6 DEF GatewayInv

LEMMA BatchStep ==
  ASSUME GatewayInv, NEW s \in Slots, Batch(s)
  PROVE  GatewayInv'
<1>1. DirectoryInv /\ GatewayTypeOK /\ FilesInv /\ Closing
  BY DEF GatewayInv
<1>2. DirectoryInv'
  BY <1>1, BatchMoves, DirectorySame
<1>3. GatewayTypeOK' /\ FilesInv' /\ Closing'
  BY <1>1, BatchTypes, BatchCloses
<1>4. QED
  BY <1>2, <1>3 DEF GatewayInv

\* The preflight and the other clients of the Directory leave the bridge alone.
LEMMA DirectoryStep ==
  ASSUME GatewayInv, Directory \/ ("directory" \in mode /\ Others /\ UNCHANGED gatewayVars)
  PROVE  GatewayInv'
<1>1. DirectoryInv /\ GatewayTypeOK /\ FilesInv /\ Closing /\ BridgeTypes
  BY BridgeTyped DEF GatewayInv
<1>2. UNCHANGED <<mode, life, starting, closing, engine, job, published, disk, manifest, locked, orphaned,
                  entries, known, opened, launches, faults>>
  BY DEF Directory, gatewayVars, bridge, files, memory, counts
<1>3. DirectoryInv'
  BY <1>1, RequestStep, OthersStep DEF Directory
<1>4. BridgeTypes'
  BY <1>1, <1>2 DEF BridgeTypes
<1>5. GatewayTypeOK' /\ FilesInv'
  BY <1>1, <1>2, <1>4, StoreSame, FilesSame DEF storeView, stashView, filesView
<1>6. at \in Ended \cup {"idle"} => at' = at
  <2>1. CASE Others
    BY <2>1 DEF Others
  <2>2. CASE Request
    BY <2>2 DEF Request, ListPage, Get, Write, Serve, Lose, Ended, Listing, Getting
  <2>3. QED
    BY <2>1, <2>2 DEF Directory
<1>7. Closing'
  BY <1>1, <1>2, <1>6 DEF Closing, NothingAfterClose
<1>8. QED
  BY <1>3, <1>5, <1>7 DEF GatewayInv

LEMMA GatewayStep ==
  ASSUME GatewayInv, [Next]_vars
  PROVE  GatewayInv'
<1>1. CASE UNCHANGED vars
  <2>1. UNCHANGED <<directoryVars, mode, life, starting, closing, engine, job, published, disk, manifest, locked,
                    orphaned, entries, known, opened, launches, faults>>
    BY <1>1 DEF vars, gatewayVars, bridge, files, memory, counts
  <2>2. DirectoryInv' /\ UNCHANGED <<at, mode>>
    BY <2>1, DirectorySame DEF GatewayInv, directoryVars
  <2>3. GatewayTypeOK'
    BY <2>1 DEF GatewayInv, GatewayTypeOK
  <2>4. FilesInv'
    BY <2>1, FilesSame DEF GatewayInv, filesView
  <2>5. Closing'
    BY <2>1, <2>2 DEF GatewayInv, Closing, NothingAfterClose
  <2>6. QED
    BY <2>2, <2>3, <2>4, <2>5 DEF GatewayInv
<1>2. CASE Start
  BY <1>2, StartStep
<1>3. CASE Reconcile
  BY <1>3, PublicationStep
<1>4. CASE Close
  BY <1>4, CloseStep
<1>5. CASE Crash \/ Relaunch
  BY <1>5, RelaunchStep
<1>6. CASE Edit
  BY <1>6, EditStep
<1>7. CASE Lifecycle
  BY <1>7, LifecycleStep
<1>8. CASE Directory \/ ("directory" \in mode /\ Others /\ UNCHANGED gatewayVars)
  BY <1>8, DirectoryStep
<1>9. CASE \E s \in Slots : Batch(s)
  BY <1>9, BatchStep
<1>10. QED
  BY <1>1, <1>2, <1>3, <1>4, <1>5, <1>6, <1>7, <1>8, <1>9 DEF Next

\* The inductive invariant of the gateway (bridge.ts, files.ts, models.ts and
\* directory.ts): for every contract, defect, revision, fault and crash.
THEOREM GatewayInvariant == Spec => []GatewayInv
<1>1. Init => GatewayInv
  BY InitGateway
<1>2. GatewayInv /\ [Next]_vars => GatewayInv'
  BY GatewayStep
<1>3. QED
  BY <1>1, <1>2, PTL DEF Spec

\* What the gateway believes of the Directory and leaves on disk is so: a listing
\* that ends is one moment's collection, a preflight that passes found none of the
\* defects it is about and left no probe, the index names only documents that
\* exist, and the manifest describes every document the gateway wrote (listPages()
\* and preflight() of directory.ts; writeBatch() of files.ts).
THEOREM TargetsAlwaysBelieved == Spec => []TargetsBelieved
<1>1. GatewayInv => TargetsBelieved
  <2> SUFFICES ASSUME GatewayInv PROVE TargetsBelieved
    OBVIOUS
  <2>1. ListConsistent /\ Excluded /\ Removable /\ FilesConsistent
    BY DEF GatewayInv, DirectoryInv, FilesInv
  <2>2. PreflightHonest
    <3>1. at = "passed" /\ "roundtrip" \in agreed =>
            /\ probe = Nothing
            /\ "unlisted" \notin flaws /\ "unreplaced" \notin flaws /\ "undeleted" \notin flaws
            /\ "etag" \in agreed => "unconditional" \notin flaws
            /\ Ttl_ => "lease" \notin flaws
            /\ Ttl_ /\ "patch" \in agreed => "unrenewed" \notin flaws
      BY <2>1 DEF Excluded
    <3>2. at \in Ended /\ losses = 0 /\ "undeleted" \notin flaws => probe = Nothing
      BY <2>1 DEF Removable
    <3>3. QED
      BY <3>1, <3>2 DEF PreflightHonest
  <2>3. QED
    BY <2>1, <2>2 DEF TargetsBelieved, DirectoryBelieved
<1>2. QED
  BY <1>1, GatewayInvariant, PTL

\* close() of the bridge leaves no engine, no publication, no preflight and no
\* lock of this process, whenever it was called (bridge.ts: start(), close()).
THEOREM NothingOutlivesClose == Spec => []NothingAfterClose
<1>1. GatewayInv => NothingAfterClose
  BY DEF GatewayInv, Closing, NothingAfterClose
<1>2. QED
  BY <1>1, GatewayInvariant, PTL
=============================================================================
