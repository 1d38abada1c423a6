----------------------------- MODULE Blocklist -----------------------------
(* The blocklist manager of package blocklist: refreshes that download the    *)
(* lists and swap new matchers in, the rules an administrator adds meanwhile, *)
(* and the queries checked against both matchers.                             *)
(*                                                                            *)
(* Names are sequences of labels, lower-cased and without the final dot       *)
(* (normalize).  mgr.matcher is read without mgr.mu; a read returns the       *)
(* pointer before or after a swap.  The counters and error texts shown by the *)
(* dashboard are left out.                                                    *)
EXTENDS Sequences, Integers

CONSTANTS
    Domains,        \* names that rules and queries mention
    Lists,          \* URLs of lists
    RPZLists,       \* those whose format is "rpz"
    Content,        \* [Lists -> Rules]: what a successful download parses to
    InitialLists,   \* cfg.Lists
    Whitelist,      \* cfg.Whitelist
    Refreshers,     \* goroutines that run RefreshAll
    Loop,           \* the one started by Start; the others serve the dashboard
    Admins,         \* goroutines that serve the dashboard's block and unblock
    Queriers,       \* goroutines that check a query
    ListsChange     \* whether lists are added and removed at run time

Rules == [exact : SUBSET Domains, wildcards : SUBSET Domains,
          whitelist : SUBSET Domains, wildcardWhitelist : SUBSET Domains]

ASSUME ListAssumption == /\ RPZLists \subseteq Lists /\ InitialLists \subseteq Lists
                         /\ Content \in [Lists -> Rules]
                         /\ Whitelist \subseteq Domains /\ Loop \in Refreshers

VARIABLES
    sources,        \* mgr.sources
    customBlocks,   \* mgr.customBlocks
    customAllows,   \* mgr.customAllows
    matcher,        \* mgr.matcher
    rpzMatcher,     \* mgr.rpzMatcher
    loaded,         \* whether the matchers in use come from a refresh
    refresher,      \* each RefreshAll: what it has left to do, what it has built
    admin,          \* each BlockDomain or UnblockDomain: its next step
    query           \* each IsBlocked: its next step and its result

blocklistVars == <<sources, customBlocks, customAllows, matcher, rpzMatcher, loaded, refresher, admin, query>>

NewMatcher == [exact |-> {}, wildcards |-> {}, whitelist |-> {}, wildcardWhitelist |-> {}]

\* The walk up the labels of d: d or a name above it is in S.
Covers(S, d) == \E i \in 1 .. Len(d) : SubSeq(d, i, Len(d)) \in S

Match(m, d) ==
    /\ d \notin m.whitelist
    /\ ~Covers(m.wildcardWhitelist, d)
    /\ d \in m.exact \/ Covers(m.wildcards, d)

AddRules(m, r) == [exact |-> m.exact \cup r.exact, wildcards |-> m.wildcards \cup r.wildcards,
                   whitelist |-> m.whitelist \cup r.whitelist,
                   wildcardWhitelist |-> m.wildcardWhitelist \cup r.wildcardWhitelist]

IdleRefresher == [pc |-> "idle", todo |-> {}, built |-> NewMatcher, builtRPZ |-> NewMatcher]
IdleAdmin == [pc |-> "idle", dom |-> << >>]
IdleQuery == [pc |-> "idle", dom |-> << >>, began |-> FALSE, blocked |-> FALSE]

\* NewManager: the whitelist of the configuration is a custom rule; the
\* matchers are empty until the first refresh.
BlocklistInit ==
    /\ sources = InitialLists
    /\ customBlocks = {}
    /\ customAllows = Whitelist
    /\ matcher = NewMatcher
    /\ rpzMatcher = NewMatcher
    /\ loaded = FALSE
    /\ refresher = [r \in Refreshers |-> IdleRefresher]
    /\ admin = [a \in Admins |-> IdleAdmin]
    /\ query = [q \in Queriers |-> IdleQuery]

-----------------------------------------------------------------------------
(* RefreshAll.                                                                *)

RefreshStart(r) ==
    /\ refresher[r].pc = "idle"
    /\ refresher' = [refresher EXCEPT ![r] = 
           [pc |-> "fetch", todo |-> sources, built |-> NewMatcher, builtRPZ |-> NewMatcher]]
    /\ UNCHANGED <<sources, customBlocks, customAllows, matcher, rpzMatcher, loaded, admin, query>>

\* One list is downloaded and parsed into the matcher being built.
FetchOK(r, l) ==
    LET c == refresher[r]
    IN  /\ c.pc = "fetch" /\ l \in c.todo
        /\ refresher' = [refresher EXCEPT ![r] =
               [pc |-> "fetch", todo |-> c.todo \ {l},
                built |-> IF l \in RPZLists THEN c.built ELSE [c.built EXCEPT !.exact = @ \cup Content[l].exact],
                builtRPZ |-> IF l \in RPZLists THEN AddRules(c.builtRPZ, Content[l]) ELSE c.builtRPZ]]
        /\ UNCHANGED <<sources, customBlocks, customAllows, matcher, rpzMatcher, loaded, admin, query>>

\* The download fails: the list contributes nothing to this refresh.
FetchFailed(r, l) ==
    /\ refresher[r].pc = "fetch" /\ l \in refresher[r].todo
    /\ refresher' = [refresher EXCEPT ![r] = [refresher[r] EXCEPT !.todo = refresher[r].todo \ {l}]]
    /\ UNCHANGED <<sources, customBlocks, customAllows, matcher, rpzMatcher, loaded, admin, query>>

\* The custom blocks are not applied again.
ApplyCustom_NoBlocks(r) ==
    /\ refresher[r].pc = "fetch" /\ refresher[r].todo = {}
    /\ refresher' = [refresher EXCEPT ![r] = [@ EXCEPT !.pc = "swap", !.built.whitelist = @ \cup customAllows]]
    /\ UNCHANGED <<sources, customBlocks, customAllows, matcher, rpzMatcher, loaded, admin, query>>

\* Under the read lock: the custom rules go into the new matcher.
ApplyCustom(r) ==
    LET c == refresher[r]
        b == [c.built EXCEPT !.exact = @ \cup customBlocks, !.whitelist = @ \cup customAllows]
    IN  /\ c.pc = "fetch" /\ c.todo = {}
        /\ refresher' = [refresher EXCEPT ![r] =
               [pc |-> "swap", todo |-> {}, built |-> b, builtRPZ |-> c.builtRPZ]]
        /\ UNCHANGED <<sources, customBlocks, customAllows, matcher, rpzMatcher, loaded, admin, query>>

\* Under the write lock, taken anew: both matchers are replaced.
Swap(r) ==
    /\ refresher[r].pc = "swap"
    /\ matcher' = refresher[r].built
    /\ rpzMatcher' = refresher[r].builtRPZ
    /\ loaded' = TRUE
    /\ refresher' = [refresher EXCEPT ![r] = IdleRefresher]
    /\ UNCHANGED <<sources, customBlocks, customAllows, admin, query>>

-----------------------------------------------------------------------------
(* The administrator.                                                         *)

BlockDomain(a, d) ==
    /\ admin[a].pc = "idle"
    /\ d # << >>
    /\ customBlocks' = customBlocks \cup {d}
    /\ admin' = [admin EXCEPT ![a] = [pc |-> "addExact", dom |-> d]]
    /\ UNCHANGED <<sources, customAllows, matcher, rpzMatcher, loaded, refresher, query>>

\* A new set of exact rules in place of the old one.
AddExact_Whole(a) ==
    /\ admin[a].pc = "addExact"
    /\ matcher' = [matcher EXCEPT !.exact = {admin[a].dom}]
    /\ admin' = [admin EXCEPT ![a] = IdleAdmin]
    /\ UNCHANGED <<sources, customBlocks, customAllows, rpzMatcher, loaded, refresher, query>>

\* mgr.matcher.AddExact(domain), on the matcher in use by then.
AddExact(a) ==
    /\ admin[a].pc = "addExact"
    /\ matcher' = [matcher EXCEPT !.exact = @ \cup {admin[a].dom}]
    /\ admin' = [admin EXCEPT ![a] = IdleAdmin]
    /\ UNCHANGED <<sources, customBlocks, customAllows, rpzMatcher, loaded, refresher, query>>

UnblockDomain(a, d) ==
    /\ admin[a].pc = "idle"
    /\ d # << >>
    /\ customAllows' = customAllows \cup {d}
    /\ customBlocks' = customBlocks \ {d}
    /\ admin' = [admin EXCEPT ![a] = [pc |-> "addWhitelist", dom |-> d]]
    /\ UNCHANGED <<sources, matcher, rpzMatcher, loaded, refresher, query>>

AddWhitelist(a) ==
    /\ admin[a].pc = "addWhitelist"
    /\ matcher' = [matcher EXCEPT !.whitelist = @ \cup {admin[a].dom}]
    /\ admin' = [admin EXCEPT ![a] = [pc |-> "remove", dom |-> admin[a].dom]]
    /\ UNCHANGED <<sources, customBlocks, customAllows, rpzMatcher, loaded, refresher, query>>

Remove(a) ==
    /\ admin[a].pc = "remove"
    /\ matcher' = [matcher EXCEPT !.exact = @ \ {admin[a].dom}, !.wildcards = @ \ {admin[a].dom}]
    /\ admin' = [admin EXCEPT ![a] = IdleAdmin]
    /\ UNCHANGED <<sources, customBlocks, customAllows, rpzMatcher, loaded, refresher, query>>

AddList(l) ==
    /\ ListsChange
    /\ sources' = sources \cup {l}
    /\ UNCHANGED <<customBlocks, customAllows, matcher, rpzMatcher, loaded, refresher, admin, query>>

RemoveList(l) ==
    /\ ListsChange
    /\ sources' = sources \ {l}
    /\ UNCHANGED <<customBlocks, customAllows, matcher, rpzMatcher, loaded, refresher, admin, query>>

-----------------------------------------------------------------------------
(* Queries.                                                                   *)

\* What IsBlocked returns when nothing happens between its two reads.
BlockedNow(d) == Match(rpzMatcher, d) \/ Match(matcher, d)

\* IsBlocked asks the RPZ matcher first.  began is for the properties only: what
\* the two matchers say together when the call begins.
IsBlocked(q, d) ==
    /\ query[q].pc = "idle"
    /\ query' = [query EXCEPT ![q] =
           [pc |-> IF Match(rpzMatcher, d) THEN "done" ELSE "matcher", dom |-> d,
            began |-> BlockedNow(d), blocked |-> Match(rpzMatcher, d)]]
    /\ UNCHANGED <<sources, customBlocks, customAllows, matcher, rpzMatcher, loaded, refresher, admin>>

\* The block rules without the whitelist.
IsBlockedByList_NoWhitelist(q) ==
    /\ query[q].pc = "matcher"
    /\ query' = [query EXCEPT ![q] = [@ EXCEPT !.pc = "done", !.blocked = query[q].dom \in matcher.exact]]
    /\ UNCHANGED <<sources, customBlocks, customAllows, matcher, rpzMatcher, loaded, refresher, admin>>

\* Then the matcher, as it is by now.
IsBlockedByList(q) ==
    /\ query[q].pc = "matcher"
    /\ query' = [query EXCEPT ![q] = [@ EXCEPT !.pc = "done", !.blocked = Match(matcher, query[q].dom)]]
    /\ UNCHANGED <<sources, customBlocks, customAllows, matcher, rpzMatcher, loaded, refresher, admin>>

QueryDone(q) ==
    /\ query[q].pc = "done"
    /\ query' = [query EXCEPT ![q] = IdleQuery]
    /\ UNCHANGED <<sources, customBlocks, customAllows, matcher, rpzMatcher, loaded, refresher, admin>>

-----------------------------------------------------------------------------
RefreshStep(r) == ApplyCustom(r) \/ Swap(r) \/ \E l \in Lists : FetchOK(r, l) \/ FetchFailed(r, l)
AdminStep(a) == AddExact(a) \/ AddWhitelist(a) \/ Remove(a)

BlocklistNext ==
    \/ \E r \in Refreshers : RefreshStart(r) \/ RefreshStep(r)
    \/ \E a \in Admins : AdminStep(a) \/ \E d \in Domains \cup {<< >>} : BlockDomain(a, d) \/ UnblockDomain(a, d)
    \/ \E l \in Lists : AddList(l) \/ RemoveList(l)
    \/ \E q \in Queriers : IsBlockedByList(q) \/ QueryDone(q) \/ \E d \in Domains : IsBlocked(q, d)

BlocklistSpec == BlocklistInit /\ [][BlocklistNext]_blocklistVars

\* The loop of Start refreshes again and again; downloads have a timeout, so a
\* refresh that was started ends, and so does a call of the dashboard.
FairSpec ==
    /\ BlocklistSpec
    /\ WF_blocklistVars(RefreshStart(Loop))
    /\ \A r \in Refreshers : WF_blocklistVars(RefreshStep(r))
    /\ \A a \in Admins : WF_blocklistVars(AdminStep(a))

-----------------------------------------------------------------------------
(* Properties.                                                                *)

\* Every variable has its type.
TypeOK ==
    /\ sources \subseteq Lists
    /\ customBlocks \subseteq Domains /\ customAllows \subseteq Domains
    /\ matcher \in Rules /\ rpzMatcher \in Rules
    /\ loaded \in BOOLEAN
    /\ refresher \in [Refreshers -> [pc : {"idle", "fetch", "swap"}, todo : SUBSET Lists, built : Rules, builtRPZ : Rules]]
    /\ admin \in [Admins -> [pc : {"idle", "addExact", "addWhitelist", "remove"}, dom : Domains \cup {<< >>}]]
    /\ query \in [Queriers -> [pc : {"idle", "matcher", "done"}, dom : Domains \cup {<< >>}, began : BOOLEAN, blocked : BOOLEAN]]

\* "A whitelisted domain is never reported as blocked": once a refresh has
\* completed, no list, no custom block and no overlap of refreshes makes the
\* matcher block a name of the configured whitelist.
WhitelistHolds == loaded => \A d \in Whitelist : ~Match(matcher, d)

\* A custom block: d is to be blocked, and nothing exempts it.
CustomBlock(d) == d \in customBlocks /\ d \notin customAllows

\* A custom block that is in force is lost to one thing only: the swap of a
\* refresh that had read the custom rules before BlockDomain added this one.
LostOnlyToOverlap ==
    [][\A d \in Domains : CustomBlock(d) /\ CustomBlock(d)' /\ Match(matcher, d) /\ ~Match(matcher, d)' =>
        \E r \in Refreshers : refresher[r].pc = "swap" /\ d \notin refresher[r].built.exact /\ refresher'[r].pc = "idle"]_blocklistVars

\* Such a loss does not last: the next refresh applies the custom block again.
CustomBlocksRestored ==
    \A d \in Domains : CustomBlock(d) ~> (Match(matcher, d) \/ ~CustomBlock(d))

\* IsBlocked reads the two matchers one after the other and without the lock,
\* and yet never reports a name that they blocked neither when it began nor when
\* it ended.
BlockedForAReason ==
    [][\A q \in Queriers : query[q].pc # "done" /\ query'[q].pc = "done" /\ query'[q].blocked =>
        BlockedNow(query'[q].dom) \/ query[q].began]_blocklistVars
=============================================================================
