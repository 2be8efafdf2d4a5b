------------------------- MODULE KnowledgePromotion --------------------------
(***************************************************************************)
(* Promotion of lessons into the pages of the knowledge base, and the way   *)
(* back.  Each promotion has an identity, an intent that says how far it    *)
(* got, an immutable raw article, and at the end a receipt; a repeated      *)
(* request is answered from the receipt.  The lease is one per identity, so *)
(* two promotions of one page may overlap, and a process may die between    *)
(* any two writes.  The module has one page, which all promotions revise.   *)
(***************************************************************************)
EXTENDS Integers, FiniteSets

CONSTANTS Promotions,     \* the promotion identities, with the texts they write
          Original,       \* the text the page may have at first
          MaxPromoDeaths, \* processes that die
          MayOverlap      \* whether two identities are worked on at once

ASSUME PromotionAssumption ==
    /\ Original \notin Promotions
    /\ MaxPromoDeaths \in Nat
    /\ MayOverlap \in BOOLEAN

VARIABLES
    page,         \* the curated page: a text or NoText
    pointer,      \* the pointer to it: a text and whether its receipt is known
    versions,     \* the texts kept under versions/
    articles,     \* the promotions whose raw article is stored
    metas,        \* and those whose article has its metadata
    oneOrigin,    \* whether the raw bytes of all promotions claim one origin
    drifts,       \* promotions refused because the origin had other bytes
    catalogue,    \* the text index.md lists the page with, and the log entries
    intents,      \* the intent files: by identity, one of each operation
    pageReceipts, \* the receipt files
    work,         \* for each identity, the request that holds its lease
    promoDeaths

vaultVars == <<page, pointer, versions, articles, metas, oneOrigin, drifts, catalogue>>
promotionVars == <<vaultVars, intents, pageReceipts, work, promoDeaths>>

NoText == "none"
Texts == Promotions \cup {Original, NoText}
Operations == {"promote", "rollback"}
NoReceipt == [operation |-> "none"]
Receipts == [operation : Operations, id : Promotions, prior : Texts]
NoIntent == [state |-> "none"]
Intents == [state : {"pending", "finalized"}, digest : Operations, receipt : Receipts \cup {NoReceipt}]
Idle == [stage |-> "idle"]
Stages == {"intent", "raw", "meta", "version", "page", "pointer", "catalogue", "signed",
           "receipt", "stored", "final", "settle"}

PromotionTypeOK ==
    /\ page \in Texts
    /\ pointer \in [text : Texts, known : BOOLEAN]
    /\ versions \subseteq Texts \ {NoText}
    /\ articles \subseteq Promotions /\ metas \subseteq articles /\ drifts \subseteq Promotions
    /\ oneOrigin \in BOOLEAN
    /\ catalogue \in [text : Texts, log : SUBSET (Operations \X Promotions)]
    /\ intents \in [Promotions -> [Operations -> Intents \cup {NoIntent}]]
    /\ pageReceipts \subseteq Receipts
    /\ work \in [Promotions -> {Idle} \cup
                    [stage : Stages, operation : Operations, prior : Texts, receipt : Receipts \cup {NoReceipt}]]
    /\ promoDeaths \in 0 .. MaxPromoDeaths

PromotionInit ==
    /\ page \in {NoText, Original}
    /\ pointer = [text |-> NoText, known |-> FALSE]
    /\ versions = {} /\ articles = {} /\ metas = {} /\ drifts = {}
    /\ oneOrigin \in BOOLEAN
    /\ catalogue = [text |-> page, log |-> {}]
    /\ intents = [p \in Promotions |-> [o \in Operations |-> NoIntent]]
    /\ pageReceipts = {}
    /\ work = [p \in Promotions |-> Idle]
    /\ promoDeaths = 0

-----------------------------------------------------------------------------
AtStage(p, o, s) == work[p] # Idle /\ work[p].operation = o /\ work[p].stage = s
GoTo(p, s) == work' = [work EXCEPT ![p].stage = s]
Ends(p) == work' = [work EXCEPT ![p] = Idle]

(* Mutant: a receipt is only replayed once the intent is finalized. *)
BugReplayed(i) == i # NoIntent /\ i.receipt # NoReceipt /\ i.state = "finalized"

(* finalizedReplay: the intent has its receipt, finalized or not. *)
Replayed(i) == i # NoIntent /\ i.receipt # NoReceipt

(* A request takes the lease of its identity and looks for its intent: one that
   has a receipt is settled by storing the receipt and is answered with it, one of
   another request is a conflict. *)
Request(p, o) ==
    /\ work[p] = Idle
    /\ ~MayOverlap => \A q \in Promotions : work[q] = Idle
    /\ o = "rollback" => \E r \in pageReceipts : r.operation = "promote" /\ r.id = p
    /\ LET i == intents[p][o]
           begin(s, r) == work' = [work EXCEPT ![p] =
                             [stage |-> s, operation |-> o, prior |-> NoText, receipt |-> r]]
       IN  IF Replayed(i) /\ i.digest = o
           THEN begin("settle", i.receipt)
           ELSE (i # NoIntent => i.digest = o) /\ begin("intent", NoReceipt)
    /\ UNCHANGED <<vaultVars, intents, pageReceipts, promoDeaths>>

Settle(p) ==
    /\ work[p].stage = "settle"
    /\ pageReceipts' = pageReceipts \cup {work[p].receipt}
    /\ intents' = [intents EXCEPT ![p][work[p].operation].state = "finalized"]
    /\ Ends(p)
    /\ UNCHANGED <<vaultVars, promoDeaths>>

(* findOriginBodyHash: the origin is known by the metadata of its first article. *)
Drifts(p) == oneOrigin /\ metas # {} /\ p \notin metas

(* handleDrift: what differs is recorded, and the request is blocked. *)
HandleDrift(p) ==
    /\ AtStage(p, "promote", "intent")
    /\ Drifts(p)
    /\ drifts' = drifts \cup {p}
    /\ Ends(p)
    /\ UNCHANGED <<page, pointer, versions, articles, metas, oneOrigin, catalogue, intents,
                   pageReceipts, promoDeaths>>

(* A ticket, worker, evidence or repository that is refused ends the request; a
   rollback looks at the repository only after it changed the page. *)
PromotionRefused(p) ==
    /\ work[p].stage = "intent" \/ AtStage(p, "rollback", "signed")
    /\ Ends(p)
    /\ UNCHANGED <<vaultVars, intents, pageReceipts, promoDeaths>>

WriteIntent(p) ==
    /\ work[p].stage = "intent"
    /\ work[p].operation = "promote" => ~Drifts(p)
    /\ LET o == work[p].operation IN
       /\ intents' = [intents EXCEPT ![p][o] =
                        IF @ = NoIntent THEN [state |-> "pending", digest |-> o, receipt |-> NoReceipt]
                        ELSE @]
       /\ GoTo(p, IF o = "promote" THEN "raw" ELSE "page")
    /\ UNCHANGED <<vaultVars, pageReceipts, promoDeaths>>

-----------------------------------------------------------------------------
(* applyPromote *)

WriteArticle(p) ==
    /\ AtStage(p, "promote", "raw")
    /\ articles' = articles \cup {p}
    /\ GoTo(p, "meta")
    /\ UNCHANGED <<page, pointer, versions, metas, oneOrigin, drifts, catalogue, intents, pageReceipts,
                   promoDeaths>>

WriteMeta(p) ==
    /\ AtStage(p, "promote", "meta")
    /\ metas' = metas \cup {p}
    /\ GoTo(p, "version")
    /\ UNCHANGED <<page, pointer, versions, articles, oneOrigin, drifts, catalogue, intents,
                   pageReceipts, promoDeaths>>

Kept(text) == {text} \ {NoText}

(* writeCuratedPage: the text that is there is read and kept as a version, and
   then the page is written. *)
KeepVersion(p) ==
    /\ AtStage(p, "promote", "version")
    /\ versions' = versions \cup Kept(page)
    /\ work' = [work EXCEPT ![p].stage = "page", ![p].prior = page]
    /\ UNCHANGED <<page, pointer, articles, metas, oneOrigin, drifts, catalogue, intents, pageReceipts,
                   promoDeaths>>

WritePage(p) ==
    /\ AtStage(p, "promote", "page")
    /\ page' = p
    /\ GoTo(p, "pointer")
    /\ UNCHANGED <<pointer, versions, articles, metas, oneOrigin, drifts, catalogue, intents,
                   pageReceipts, promoDeaths>>

WritePointer(p) ==
    /\ AtStage(p, "promote", "pointer")
    /\ pointer' = [text |-> p, known |-> FALSE]
    /\ GoTo(p, "catalogue")
    /\ UNCHANGED <<page, versions, articles, metas, oneOrigin, drifts, catalogue, intents, pageReceipts,
                   promoDeaths>>

(* regenerateIndex, appendLog *)
Catalogue(p) ==
    /\ work[p].stage = "catalogue"
    /\ catalogue' = [text |-> page, log |-> catalogue.log \cup {<<work[p].operation, p>>}]
    /\ GoTo(p, "signed")
    /\ UNCHANGED <<page, pointer, versions, articles, metas, oneOrigin, drifts, intents, pageReceipts,
                   promoDeaths>>

(* The pointer of a promotion learns the receipt before the receipt is stored. *)
Sign(p) ==
    /\ work[p].stage = "signed"
    /\ pointer' = IF work[p].operation = "promote" THEN [text |-> p, known |-> TRUE] ELSE pointer
    /\ work' = [work EXCEPT ![p].stage = "receipt",
                            ![p].receipt = [operation |-> work[p].operation, id |-> p, prior |-> work[p].prior]]
    /\ UNCHANGED <<page, versions, articles, metas, oneOrigin, drifts, catalogue, intents, pageReceipts,
                   promoDeaths>>

-----------------------------------------------------------------------------
(* applyRollback of the promotion of the same identity: the page gets the prior
   text of the receipt, or goes; then the pointer. *)

Restore(p) ==
    /\ AtStage(p, "rollback", "page")
    /\ \E r \in pageReceipts :
          /\ r.operation = "promote" /\ r.id = p
          /\ r.prior \in versions \cup {NoText}
          /\ page' = r.prior
          /\ work' = [work EXCEPT ![p].stage = "pointer", ![p].prior = r.prior]
    /\ UNCHANGED <<pointer, versions, articles, metas, oneOrigin, drifts, catalogue, intents,
                   pageReceipts, promoDeaths>>

RestorePointer(p) ==
    /\ AtStage(p, "rollback", "pointer")
    /\ pointer' = [text |-> work[p].prior, known |-> work[p].prior # NoText]
    /\ GoTo(p, "catalogue")
    /\ UNCHANGED <<page, versions, articles, metas, oneOrigin, drifts, catalogue, intents, pageReceipts,
                   promoDeaths>>

-----------------------------------------------------------------------------
(* persistFinalReceipt: the receipt goes into the intent, then to its file, then
   the intent is finalized.  It writes the intent of the promotion, whichever the
   operation, with the digest of the request at hand. *)

SignIntent(p) ==
    /\ work[p].stage = "receipt"
    /\ intents' = [intents EXCEPT ![p]["promote"] =
                     [state |-> "pending", digest |-> work[p].operation, receipt |-> work[p].receipt]]
    /\ GoTo(p, "stored")
    /\ UNCHANGED <<vaultVars, pageReceipts, promoDeaths>>

StoreReceipt(p) ==
    /\ work[p].stage = "stored"
    /\ pageReceipts' = pageReceipts \cup {work[p].receipt}
    /\ GoTo(p, "final")
    /\ UNCHANGED <<vaultVars, intents, promoDeaths>>

Finalize(p) ==
    /\ work[p].stage = "final"
    /\ intents' = [intents EXCEPT ![p]["promote"].state = "finalized"]
    /\ Ends(p)
    /\ UNCHANGED <<vaultVars, pageReceipts, promoDeaths>>

WorkerDies(p) ==
    /\ promoDeaths < MaxPromoDeaths
    /\ work[p] # Idle
    /\ Ends(p)
    /\ promoDeaths' = promoDeaths + 1
    /\ UNCHANGED <<vaultVars, intents, pageReceipts>>

PromotionNext ==
    \E p \in Promotions :
        \/ \E o \in Operations : Request(p, o)
        \/ Settle(p) \/ HandleDrift(p) \/ PromotionRefused(p) \/ WriteIntent(p)
        \/ WriteArticle(p) \/ WriteMeta(p) \/ KeepVersion(p) \/ WritePage(p) \/ WritePointer(p)
        \/ Catalogue(p) \/ Sign(p)
        \/ Restore(p) \/ RestorePointer(p)
        \/ SignIntent(p) \/ StoreReceipt(p) \/ Finalize(p)
        \/ WorkerDies(p)

PromotionSpec == PromotionInit /\ [][PromotionNext]_promotionVars

-----------------------------------------------------------------------------
(* A promotion that has a receipt never writes the page again, however often it is
   asked for, whatever died in between, and after its own rollback too.
   (knowledge-promotion.ts, finalizedReplay) *)
PromotedOnce ==
    [][\A p \in Promotions :
          AtStage(p, "promote", "page") /\ page' = p /\ work'[p] # Idle /\ work'[p].stage = "pointer"
             => \A r \in pageReceipts : ~(r.operation = "promote" /\ r.id = p)]_promotionVars

(* The text a promotion replaced, according to its receipt, can be restored, even
   when two promotions of the page overlapped: it is a version that was kept, and a
   rollback never stops for the lack of one. (knowledge-promotion.ts,
   writeCuratedPage, applyRollback) *)
RollbackHasItsVersion ==
    \A r \in pageReceipts : r.operation = "promote" => r.prior \in versions \cup {NoText}

(* What a page's history promises: both. *)
PageHistoryHolds == PromotedOnce /\ []RollbackHasItsVersion

=============================================================================
