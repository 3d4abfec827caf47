--------------------------- MODULE DirectoryClient ---------------------------
(***************************************************************************)
(* DirectoryClient (publication/directory.ts) over PublicationHttpClient   *)
(* (publication/http.ts): the paginated listing of a collection that other *)
(* clients change meanwhile, and the preflight, which proves with a probe  *)
(* registration of its own that the Directory keeps its contract.  A       *)
(* request may fail before it is served, after it, or for good; a          *)
(* Directory may have defects.  Entries are identified by numbers in the   *)
(* order of their IDs, Probe is one of them.                               *)
(***************************************************************************)
EXTENDS Integers, Sequences, FiniteSets, FiniteSetsExt

CONSTANTS Ids, Probe, PageSize, MaxPages, MaxRestarts, MaxRetries,
          Agreements,                     \* contracts to consider
          Flaws,                          \* defects a Directory may have
          MaxTrouble                      \* bound: other clients' changes and lost requests

ASSUME DirectoryAssumption ==
  /\ Ids \subseteq Nat /\ IsFiniteSet(Ids) /\ Probe \in Ids
  /\ {PageSize, MaxPages} \subseteq Nat \ {0}
  /\ {MaxRestarts, MaxRetries, MaxTrouble} \subseteq Nat
  /\ Agreements \subseteq SUBSET {"etag", "ttl", "patch", "roundtrip", "revision"}

VARIABLES
  agreed, flaws,        \* the contract and the Directory's defects; constant
  collection, revision, \* the IDs the Directory holds and its revision
  probe,                \* what it holds under Probe
  at,                   \* the await preflight() is in
  list,                 \* listPages(): what it has so far
  attempt, current, stale, created,   \* locals of read() and preflight()
  changes, losses
directoryVars == <<agreed, flaws, collection, revision, probe, at, list, attempt, current, stale,
                   created, changes, losses>>
locals == <<current, stale, created>>
remoteVars == <<collection, revision, probe>>
fixed == <<agreed, flaws>>

Nothing == [title |-> "none", etag |-> 0, ttl |-> FALSE, lease |-> 0]
NoList == [page |-> 0, offset |-> 0, previous |-> -1, ids |-> {}, revision |-> -1, base |-> {}, restart |-> 0]
Listing == {"list1", "list2"}
Getting == {"get1", "get2", "get3", "get4", "get5"}
Ended == {"passed", "failed"}

DirectoryInit ==
  /\ agreed \in Agreements /\ flaws \in {{}} \cup {{f} : f \in Flaws}
  /\ collection \in SUBSET (Ids \ {Probe}) /\ revision = 0 /\ probe = Nothing
  /\ at = "idle" /\ list = NoList /\ attempt = 0
  /\ current = Nothing /\ stale = 0 /\ created = FALSE /\ changes = 0 /\ losses = 0

Preflight == /\ at = "idle" /\ at' = "list1" /\ list' = NoList
             /\ UNCHANGED <<fixed, remoteVars, attempt, locals, changes, losses>>

\* The outcome of the try block: a failure once the probe was created is
\* followed by its deletion, when there is an etag to delete it with.
Deletable == created /\ (current # Nothing \/ "etag" \notin agreed)
Failing == IF at \in {"list1", "get1", "get5"} \/ ~Deletable THEN "failed" ELSE "cleanup"

-----------------------------------------------------------------------------
\* listPages(): one page.  The Directory answers with at most PageSize entries in
\* the order of their IDs, a revision if it was agreed, and a link to the next
\* page while there is more.
Page == {id \in collection : id # Probe \/ "unlisted" \notin flaws}
Rank(id) == Cardinality({x \in Page : x < id})
Slice == {id \in Page : Rank(id) \in list.offset .. list.offset + PageSize - 1}
Changed == "revision" \in agreed /\ list.revision \notin {-1, revision}
Disordered == \E id \in Slice : id <= list.previous

\* list(): a changed collection is listed again from the start, MaxRestarts times.
Restart == IF list.restart < MaxRestarts
           THEN list' = [NoList EXCEPT !.restart = list.restart + 1] /\ UNCHANGED at
           ELSE at' = Failing /\ UNCHANGED list
Listed == IF at = "list2" THEN IF Probe \in Slice \cup list.ids THEN "replace" ELSE Failing
          ELSE IF "roundtrip" \in agreed THEN "get1" ELSE "passed"
ListPage ==
  /\ at \in Listing /\ attempt' = 0
  /\ LET more == list.offset + PageSize < Cardinality(Page)
         got == [list EXCEPT !.page = @ + 1, !.offset = @ + PageSize, !.ids = @ \cup Slice,
                   !.previous = IF Slice = {} THEN @ ELSE Max(Slice), !.revision = revision,
                   !.base = IF list.page = 0 THEN Page ELSE @]
     IN IF Changed \/ Disordered THEN Restart
        ELSE IF "stuck" \in flaws /\ more THEN at' = Failing /\ UNCHANGED list   \* offset does not advance
        ELSE IF more /\ got.page < MaxPages THEN list' = got /\ UNCHANGED at
        ELSE at' = (IF more THEN Failing ELSE Listed) /\ list' = got
  /\ UNCHANGED <<fixed, remoteVars, locals, changes, losses>>

-----------------------------------------------------------------------------
Ttl_ == "ttl" \in agreed
Put(title, lease) ==
  /\ probe' = [title |-> title, etag |-> revision + 1, ttl |-> Ttl_ /\ "lease" \notin flaws, lease |-> lease]
  /\ collection' = collection \cup {Probe} /\ revision' = revision + 1
Keep == UNCHANGED remoteVars
\* condition(): If-Match with an etag, nothing under the single-writer contract.
Matches(etag) == "etag" \in agreed => probe.etag = etag \/ "unconditional" \in flaws

\* What the Directory does with the request preflight() is awaiting, and whether
\* it acknowledges it as the client expects.
Serve(ok) ==
  CASE at = "create"  -> ok /\ Put("probe", 1)
    [] at = "replace" -> /\ IF "unreplaced" \in flaws THEN Keep ELSE Put("update", 1)
                         /\ ok = Matches(current.etag)
    [] at = "stale"   -> /\ ok = Matches(stale) /\ IF ok THEN Put("probe", 1) ELSE Keep
    [] at = "renew"   -> ok /\ IF "unrenewed" \in flaws THEN Keep ELSE Put(probe.title, probe.lease + 1)
    [] at \in {"delete", "cleanup"} ->
         /\ ok = (probe = Nothing \/ Matches(current.etag))
         /\ IF ~ok \/ probe = Nothing \/ "undeleted" \in flaws THEN Keep
            ELSE probe' = Nothing /\ collection' = collection \ {Probe} /\ revision' = revision + 1
    [] OTHER -> FALSE

NextStep ==
  CASE at = "create" -> "get2" [] at = "replace" -> "get3" [] at = "renew" -> "get4"
    [] at = "delete" -> "get5" [] at = "cleanup" -> "failed"
Renewing == IF Ttl_ /\ "patch" \in agreed THEN "renew" ELSE "delete"

\* put(), renew() and delete(): one request that is never repeated.  A stale
\* conditional write has to be refused.
Write(ok) ==
  /\ Serve(ok)
  /\ at' = IF at = "stale" THEN IF ok THEN "cleanup" ELSE Renewing
           ELSE IF ok THEN NextStep
           ELSE IF at \in {"delete", "cleanup"} THEN "failed" ELSE Failing
  /\ created' = (created \/ (at = "create" /\ ok))
  /\ UNCHANGED <<fixed, list, attempt, current, stale, changes, losses>>

\* get() and what preflight() requires of the record.
Acceptable ==
  CASE at = "get2" -> probe.title = "probe" /\ (Ttl_ => probe.ttl)
    [] at = "get3" -> probe.title = "update"
    [] at = "get4" -> probe.title = "update" /\ probe.ttl /\ probe.lease > current.lease
                      /\ ("etag" \in agreed => probe.etag # current.etag)
    [] OTHER -> TRUE
After == CASE at = "get2" -> "list2"
           [] at = "get3" -> IF "etag" \in agreed THEN "stale" ELSE Renewing
           [] at = "get4" -> "delete"
Get ==
  /\ at \in Getting /\ attempt' = 0
  /\ IF at \in {"get1", "get5"}
     THEN /\ at' = IF probe # Nothing THEN "failed" ELSE IF at = "get1" THEN "create" ELSE "passed"
          /\ UNCHANGED <<current, stale, list>>
     ELSE /\ current' = probe
          /\ stale' = IF at = "get2" THEN probe.etag ELSE stale
          /\ at' = IF probe # Nothing /\ Acceptable THEN After
                   ELSE IF probe # Nothing \/ "etag" \notin agreed THEN "cleanup" ELSE "failed"
          /\ list' = NoList
  /\ UNCHANGED <<fixed, remoteVars, created, changes, losses>>

\* The bound: a Directory with a defect is not disturbed otherwise.
Trouble == flaws = {} /\ changes + losses < MaxTrouble
\* A request or its answer is lost, or the deadline passes: read() tries a GET
\* again, everything else fails with its outcome unknown.
Lose ==
  /\ at \notin Ended \cup {"idle"} /\ Trouble /\ losses' = losses + 1
  /\ \/ Keep
     \/ at \notin Listing \cup Getting /\ \E ok \in BOOLEAN : Serve(ok)
  /\ \/ at \in Listing \cup Getting /\ attempt < MaxRetries /\ attempt' = attempt + 1 /\ UNCHANGED at
     \/ attempt' = 0 /\ at' = IF at \in {"delete", "cleanup"} THEN "failed" ELSE Failing
  /\ UNCHANGED <<fixed, list, locals, changes>>

\* Other clients register and delete their own entries.
Others ==
  /\ Trouble /\ changes' = changes + 1 /\ revision' = revision + 1
  /\ \E id \in Ids \ {Probe} : collection' = SymDiff(collection, {id})
  /\ UNCHANGED <<fixed, probe, at, list, attempt, locals, losses>>

Request == ListPage \/ Get \/ (\E ok \in BOOLEAN : Write(ok)) \/ Lose
DirectoryNext == Request \/ Others

-----------------------------------------------------------------------------
\* list(): under the agreed collection revision a listing that ends is the whole
\* collection as it was at one moment, whatever other clients did between pages.
ListConsistent ==
  (/\ "revision" \in agreed /\ at \notin Listing \cup {"cleanup", "failed"}) => list.ids = list.base

\* preflight(): it passes only a Directory without the defects the contract is
\* about, and leaves no probe behind unless a request was lost.
PreflightHonest ==
  /\ at = "passed" /\ "roundtrip" \in agreed =>
       /\ probe = Nothing
       /\ flaws \cap ({"unlisted", "unreplaced", "undeleted"}
            \cup (IF "etag" \in agreed THEN {"unconditional"} ELSE {})
            \cup (IF Ttl_ THEN {"lease"} ELSE {})
            \cup (IF Ttl_ /\ "patch" \in agreed THEN {"unrenewed"} ELSE {})) = {}
  /\ at \in Ended /\ losses = 0 /\ "undeleted" \notin flaws => probe = Nothing

\* What the client concludes about the Directory is so: listings and the preflight.
DirectoryBelieved == ListConsistent /\ PreflightHonest
=============================================================================
