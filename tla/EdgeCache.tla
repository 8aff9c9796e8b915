----------------------------- MODULE EdgeCache -----------------------------
(***************************************************************************)
(* The shared edge copy of one public document, and the writers that must   *)
(* invalidate it: the middleware that tags a response and lets the edge     *)
(* store it, the tag purge with its purge-everything fallback, the          *)
(* best-effort purge of a stock transition, the deploy hook, and the admin  *)
(* handlers that write one kind of fact and then purge.  Copies of          *)
(* different URLs do not interact, so one copy stands for any of them; its  *)
(* kind is chosen in EdgeInit.                                              *)
(*                                                                          *)
(* A document is known by the facts it has read: a fact written after it    *)
(* was read is stale in the document.  What the facts say is left out.      *)
(***************************************************************************)
EXTENDS FiniteSets, Naturals

CONSTANTS
  Editors,    \* concurrent admin handlers and stock transitions
  Visitors,   \* concurrent requests that missed the edge
  MaxEdits    \* bound: facts written in one behaviour

ASSUME BoundAssumption == MaxEdits \in Nat

\* `settings` is what the settings handler takes for public; `providers` is the rest that
\* a document depends on, how mail is sent and with which credentials payments are taken.
Facts == {"menu", "page", "catalog", "settings", "providers", "stock", "review"}

\* One kind per shape of tags and reads: `list` the catalog pages and a
\* product's page; `design` a page that falls back to a normalized design;
\* `feed` the product feed; `api` the catalog API.
Kinds == {"list", "design", "feed", "api"}

Tags == {"shell", "catalog", "product"}

\* A menu's entries come with what they lead to, its title and whether it is public.
MenuReads == {"menu", "page", "catalog"}

\* The settings table comes whole, with the names of the secrets that are configured:
\* a page's header links to the account if mail can be sent, and a product's page has
\* its Buy now if some method can take a payment.
SettingsReads == {"settings", "providers"}

\* The storefront's documents read both menus and the settings in one batch
\* before the page runs; the API skips that read.
GateReads(k) == IF k = "api" THEN {} ELSE MenuReads \cup SettingsReads

\* What the routes read themselves; the home page may be a page.
ListReads   == {"page", "catalog", "stock"}
DesignReads == {"page", "catalog", "review"}
FeedReads   == {"catalog", "stock"}
ApiReads    == {"catalog", "stock"}

PageReads(k) == CASE k = "list"   -> ListReads
                  [] k = "design" -> DesignReads
                  [] k = "feed"   -> FeedReads
                  [] k = "api"    -> ApiReads

\* What of it the document shows.  The batch runs for the feed too, which has no
\* header and names the store by its build's configuration.
Shows(k) == (IF k = "feed" THEN {} ELSE GateReads(k)) \cup PageReads(k)

\* A slip: a storefront document carries the shell's tag only.
ResponseCacheTagsShell(k) ==
  IF k = "api" THEN {"catalog"} ELSE {"shell"}

ResponseCacheTags(k) ==
  IF k = "api" THEN {"catalog"} ELSE {"shell", "catalog"}

\* The product tags a route adds of its own.  A design's page and the feed add none.
ProductTags(k) == IF k \in {"list", "api"} THEN {"product"} ELSE {}

TagsOf(k) == ResponseCacheTags(k) \cup ProductTags(k)

\* What a writer of each fact purges after its write: the page, navigation,
\* settings, product and category handlers, and a stock transition.  The settings
\* handler purges for the actions it lists as public ones; its saves of e-mail and of
\* payment credentials are not among them.  The moderation of a review purges nothing.
PurgedBy(f) == CASE f = "menu"      -> {"shell"}
                 [] f = "page"      -> {"shell"}
                 [] f = "settings"  -> {"shell", "catalog"}
                 [] f = "providers" -> {}
                 [] f = "catalog"   -> {"catalog", "product"}
                 [] f = "stock"     -> {"product"}
                 [] f = "review"    -> {}

BestEffort(f) == f = "stock"

\* What a request may come by without: the menus when the batch fails and the
\* settings are read alone, and the settings too when that fails as well.
GateMisses(k) == IF k = "api" THEN {{}}
                 ELSE {{}, {"menu"}, {"menu"} \cup SettingsReads}

Absent  == [stored |-> FALSE, stale |-> {}, raced |-> {}, missed |-> {}]
NoVisit == [at |-> "idle", read |-> {}, stale |-> {}, raced |-> {}, missed |-> {}]
NoEdit  == [at |-> "idle", fact |-> "menu"]

VARIABLES
  kind,      \* what the document is
  enabled,   \* whether the Worker's cache is switched on
  copy,      \* the edge's copy: its stale facts, and of them those read before
             \* a purge that ran before the copy was stored, and those missed
  visit,     \* what each request has read so far
  edit,      \* each writer: idle, then wrote, then refused (its tag purge failed)
  unpurged,  \* history: facts whose writer stopped, or gave up, before a purge
  edits      \* how many facts have been written

edgeVars == <<kind, enabled, copy, visit, edit, unpurged, edits>>

VisitType == [at : {"idle", "gate", "page"}, read : SUBSET Facts, stale : SUBSET Facts,
              raced : SUBSET Facts, missed : SUBSET Facts]

EdgeTypeOK == /\ kind \in Kinds
              /\ enabled \in BOOLEAN
              /\ copy \in [stored : BOOLEAN, stale : SUBSET Facts, raced : SUBSET Facts,
                          missed : SUBSET Facts]
              /\ visit \in [Visitors -> VisitType]
              /\ edit \in [Editors -> [at : {"idle", "wrote", "refused"}, fact : Facts]]
              /\ unpurged \subseteq Facts
              /\ edits \in 0..MaxEdits

EdgeInit == /\ kind \in Kinds
            /\ enabled \in BOOLEAN
            /\ copy = Absent
            /\ visit = [v \in Visitors |-> NoVisit]
            /\ edit = [e \in Editors |-> NoEdit]
            /\ unpurged = {}
            /\ edits = 0

----------------------------------------------------------------------------
(* A request the edge has no copy for.                                      *)

\* The middleware's batch of settings and menus.  Without the menus the header and
\* footer render empty, without the settings the build's own defaults do: the
\* document is served, and stored, as if that were what the merchant had chosen.
Gate(v) == /\ visit[v].at = "idle"
           /\ ~copy.stored
           /\ \E missed \in GateMisses(kind) :
                visit' = [visit EXCEPT ![v] =
                  [NoVisit EXCEPT
                     !.at = "gate",
                     !.missed = missed \cap Shows(kind),
                     !.stale = missed \cap Shows(kind),
                     !.read = Shows(kind) \cap (IF "menu" \in missed THEN SettingsReads \ missed
                                                 ELSE GateReads(kind))]]
           /\ UNCHANGED <<kind, enabled, copy, edit, unpurged, edits>>

\* The route's own reads, later.  A fact the gate read stays as the gate saw it.
ReadPage(v) == /\ visit[v].at = "gate"
               /\ visit' = [visit EXCEPT ![v] =
                    [visit[v] EXCEPT !.at = "page", !.read = @ \cup PageReads(kind)]]
               /\ UNCHANGED <<kind, enabled, copy, edit, unpurged, edits>>

\* The answer is public with s-maxage, so the edge keeps it.
Answer(v) == /\ visit[v].at = "page"
             /\ copy' = IF enabled THEN [stored |-> TRUE, stale |-> visit[v].stale,
                                         raced |-> visit[v].raced, missed |-> visit[v].missed]
                                   ELSE copy
             /\ visit' = [visit EXCEPT ![v] = NoVisit]
             /\ UNCHANGED <<kind, enabled, edit, unpurged, edits>>

\* The request dies: an error's answer is private.
Drop(v) == /\ visit[v].at # "idle"
           /\ visit' = [visit EXCEPT ![v] = NoVisit]
           /\ UNCHANGED <<kind, enabled, copy, edit, unpurged, edits>>

\* The shared lifetime runs out.
Expire == /\ copy.stored
          /\ copy' = Absent
          /\ UNCHANGED <<kind, enabled, visit, edit, unpurged, edits>>

----------------------------------------------------------------------------
(* The writers.                                                             *)

\* A copy that was cached keeps what it showed; so does a request under way.
WriteFact(f) ==
  /\ copy' = IF copy.stored /\ f \in Shows(kind) THEN [copy EXCEPT !.stale = @ \cup {f}] ELSE copy
  /\ visit' = [v \in Visitors |->
                 [visit[v] EXCEPT !.stale = @ \cup ({f} \cap visit[v].read)]]

Write(e, f) == /\ edit[e].at = "idle"
               /\ edits < MaxEdits
               /\ edits' = edits + 1
               /\ WriteFact(f)
               /\ edit' = IF PurgedBy(f) = {} THEN edit
                          ELSE [edit EXCEPT ![e] = [at |-> "wrote", fact |-> f]]
               /\ UNCHANGED <<kind, enabled, unpurged>>

\* The forms of the navigation, of a page, of the settings and of the catalog.
SaveMenu(e)     == Write(e, "menu")
SavePage(e)     == Write(e, "page")
SaveSettings(e) == Write(e, "settings")
SaveCatalog(e)  == Write(e, "catalog")

\* Its sections for e-mail, Stripe, Lightning and OpenNode.
SaveProviders(e) == Write(e, "providers")

\* A hold takes units, or its release returns them.
MoveStock(e) == Write(e, "stock")

ModerateReview(e) == Write(e, "review")

\* The edge drops what it has; a request under way keeps what it read of `facts`.
DropCopy(facts) ==
  /\ copy' = Absent
  /\ visit' = [v \in Visitors |->
       [visit[v] EXCEPT !.raced = @ \cup (visit[v].stale \cap facts)]]

Done(e) == edit' = [edit EXCEPT ![e] = NoEdit]

\* The purge by tags.  A cache that is not enabled ends it as well.
PurgeCacheTags(e) ==
  /\ edit[e].at = "wrote"
  /\ IF enabled /\ PurgedBy(edit[e].fact) \cap TagsOf(kind) # {}
     THEN DropCopy({edit[e].fact}) ELSE UNCHANGED <<copy, visit>>
  /\ Done(e)
  /\ UNCHANGED <<kind, enabled, unpurged, edits>>

\* The edge refuses the tags.  A stock transition leaves it at that: the
\* lifetime is its safety net.
Refused(e) ==
  /\ edit[e].at = "wrote"
  /\ enabled
  /\ IF BestEffort(edit[e].fact)
     THEN Done(e) /\ unpurged' = unpurged \cup {edit[e].fact}
     ELSE edit' = [edit EXCEPT ![e].at = "refused"] /\ UNCHANGED unpurged
  /\ UNCHANGED <<kind, enabled, copy, visit, edits>>

\* A slip: the fallback purges the document's own tags again, and is refused.
PurgeEverythingNot(e) ==
  /\ edit[e].at = "refused"
  /\ Done(e)
  /\ UNCHANGED <<kind, enabled, copy, visit, unpurged, edits>>

\* The fallback: the whole cache.
PurgeEverything(e) ==
  /\ edit[e].at = "refused"
  /\ DropCopy({edit[e].fact})
  /\ Done(e)
  /\ UNCHANGED <<kind, enabled, unpurged, edits>>

\* The fallback fails too, and the handler throws; or the Worker stops between
\* the write and the purge.  The write stands.
Unpurged(e) ==
  /\ edit[e].at # "idle"
  /\ unpurged' = unpurged \cup {edit[e].fact}
  /\ Done(e)
  /\ UNCHANGED <<kind, enabled, copy, visit, edits>>

\* The deploy script's hook.
PurgeEntireCache ==
  /\ enabled
  /\ DropCopy({})
  /\ UNCHANGED <<kind, enabled, edit, unpurged, edits>>

EdgeNext == \/ \E v \in Visitors : Gate(v) \/ ReadPage(v) \/ Answer(v) \/ Drop(v)
            \/ \E e \in Editors : \/ SaveMenu(e) \/ SavePage(e) \/ SaveSettings(e)
                                  \/ SaveProviders(e) \/ SaveCatalog(e) \/ MoveStock(e) \/ ModerateReview(e)
                                  \/ PurgeCacheTags(e) \/ Refused(e)
                                  \/ PurgeEverything(e) \/ Unpurged(e)
            \/ Expire
            \/ PurgeEntireCache

EdgeSpec == EdgeInit /\ [][EdgeNext]_edgeVars

----------------------------------------------------------------------------
(* Properties.                                                              *)

Pending == {edit[e].fact : e \in {x \in Editors : edit[x].at # "idle"}}

\* The edges of the dependency graph nobody purges: e-mail and payment credentials on
\* every page, a review that is moderated on a design's page, and the stock of a product
\* in the feed.
Uncovered == {<<"list", "providers">>, <<"design", "providers">>,
              <<"design", "review">>, <<"feed", "stock">>}

\* A shared copy never shows what an admin has replaced, except while the purge is
\* still to come, where a purge was refused twice or its Worker stopped, where the copy
\* was read before a purge and stored after it, where a failed read was rendered as
\* empty, and on the uncovered edges above, for which no handler purges at all
\* (purgeCacheTags, responseCacheTags, the middleware's gate and the handlers that
\* write and purge).
StaleIsExplained ==
  \A f \in copy.stale : \/ f \in Pending \cup unpurged \cup copy.raced \cup copy.missed
                        \/ <<kind, f>> \in Uncovered

\* What the comment in the settings handler says for not purging: "Provider credentials
\* and other operational settings are not represented in cached storefront HTML".  Then
\* no save of them could leave a shared copy behind.  It does not hold: the copy keeps
\* an account link, or the lack of a Buy now, from before the save.
ProvidersAreNotShown == "providers" \notin copy.stale \ copy.missed

\* What the comment on purgeCacheTags promises: once every handler has answered and none
\* has failed, the copy shows what was saved ("rather than silently accepting stale
\* content").  It does not hold: an overlapping request stores what it read before the
\* purge, and the uncovered edges have no purge.
AnsweredSaveIsShown == Pending = {} /\ unpurged = {} => copy.stale \ copy.missed = {}
=============================================================================
