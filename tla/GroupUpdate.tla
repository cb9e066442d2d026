---------------------------- MODULE GroupUpdate ----------------------------
(***************************************************************************)
(* The refresh of one subscription group: GroupUpdater::Update, with what   *)
(* it uses of ProfileFilter, Group and ProfilesRepo. It runs on a worker    *)
(* thread under subscriptionMutationMutex, which the user, who starts,      *)
(* stops, adds and deletes profiles meanwhile, does not take.               *)
(*                                                                         *)
(* A profile is its id, its row holds its outbound. An outbound is a pair   *)
(* <<identity, rest>>: ExportIdentity() is the first half, ExportJsonLink() *)
(* all of it. Network, formats and notices are left out; a refresh that     *)
(* fails before it has valid servers returns and changes nothing.           *)
(***************************************************************************)
EXTENDS Lists, Functions

CONSTANTS
    Outbound,   \* servers the remote may send
    Selector,   \* the outbound of an auto selector: local, never in a remote
    MaxRemote,  \* servers in an answer of the remote
    MaxUpdate,  \* refreshes, a bound on the environment
    MaxUser,    \* what the user does, a bound on the environment
    NoId        \* started_id of no profile

ASSUME GroupAssumption ==
    /\ Selector \notin Outbound
    /\ MaxRemote \in Nat /\ MaxUpdate \in Nat /\ MaxUser \in Nat

VARIABLES
    rows,       \* the table of profiles: id -> outbound
    order,      \* group->profiles
    startedId,  \* settingsRepo->started_id
    nextId,     \* the next id of the table
    stage,      \* where Update stands
    remote,     \* rawUpdater->updated_order: the servers it was sent ...
    fresh,      \* ... and the ids they were given
    sticky,     \* (position, id) of the selectors
    src,        \* in: ids in the group before the refresh
    cleared,    \* cleared
    asked,      \* ids deleteProfiles was given
    doomed,     \* those it goes on to delete
    kept,       \* outcome.kept
    replaces,   \* supersededBy: fresh id -> old id that stands for it
    previous,   \* previousOrder
    disturbed,  \* disturbed
    updates, deeds,
    before,     \* history: rows and order when the refresh began, and its sub_clear
    meddled     \* history: the user added or deleted a profile during a refresh

tableVars  == <<rows, order, nextId>>
updateVars == <<stage, remote, fresh, sticky, src, cleared, asked, doomed, kept,
                replaces, previous, disturbed, updates, before>>
userVars   == <<startedId, deeds, meddled>>
groupVars == <<tableVars, updateVars, userVars>>

Ids(n) == 1..(n - 1)
Stages == {"idle", "look", "delete", "add", "diff", "reorder", "relook", "redelete",
           "reinsert", "done"}

GroupTypeOK ==
    /\ DOMAIN rows \subseteq Ids(nextId)
    /\ Range(rows) \subseteq Outbound \cup {Selector}
    /\ order \in Seq(Ids(nextId))
    /\ startedId \in Ids(nextId) \cup {NoId}
    /\ stage \in Stages
    /\ remote \in Seq(Outbound)
    /\ fresh \in Seq(Ids(nextId)) /\ src \in Seq(Ids(nextId)) /\ previous \in Seq(Ids(nextId))
    /\ sticky \in Seq(Nat \X Ids(nextId))
    /\ cleared \in BOOLEAN /\ meddled \in BOOLEAN
    /\ asked \cup doomed \cup kept \cup disturbed \subseteq Ids(nextId)
    /\ DOMAIN replaces \subseteq Ids(nextId)
    /\ updates \in 0..MaxUpdate /\ deeds \in 0..MaxUser

\* A group in which the user has made a selector, and that was never refreshed.
GroupInit ==
    /\ rows = <<Selector>> /\ order = <<1>> /\ nextId = 2
    /\ startedId = NoId /\ deeds = 0 /\ meddled = FALSE
    /\ stage = "idle" /\ updates = 0
    /\ remote = <<>> /\ fresh = <<>> /\ sticky = <<>> /\ src = <<>>
    /\ cleared = FALSE /\ asked = {} /\ doomed = {} /\ kept = {}
    /\ replaces = <<>> /\ previous = <<>> /\ disturbed = {}
    /\ before = [rows |-> <<>>, order |-> <<>>, clear |-> FALSE]

\* The locals of Update, out of scope.
Locals ==
    /\ remote' = <<>> /\ fresh' = <<>> /\ sticky' = <<>> /\ src' = <<>>
    /\ cleared' = FALSE /\ asked' = {} /\ doomed' = {} /\ kept' = {}
    /\ replaces' = <<>> /\ previous' = <<>> /\ disturbed' = {}
    /\ before' = [rows |-> <<>>, order |-> <<>>, clear |-> FALSE]

\* GetProfileBatch(group->Profiles()) without the selectors found at the start.
Stickies == {sticky[i][2] : i \in DOMAIN sticky}
ServersOf(ids) == Filter(ids, DOMAIN rows \ Stickies)

Step(here, there) == stage = here /\ stage' = there

-----------------------------------------------------------------------------
(* Update *)

Remotes == UNION {[1..n -> Outbound] : n \in 1..MaxRemote}

\* Valid servers were received. The selectors and their places are noted; with
\* sub_clear everything else is deleted first.
BeginUpdate(servers, subClear) ==
    /\ updates < MaxUpdate
    /\ updates' = updates + 1
    /\ remote' = servers
    /\ LET selectors == {id \in DOMAIN rows : rows[id] = Selector}
           places == Filter([i \in DOMAIN order |-> i], {i \in DOMAIN order : order[i] \in selectors})
           servers0 == Filter(order, ToSet(order) \ selectors)
       IN  /\ sticky' = [n \in DOMAIN places |-> <<places[n] - 1, order[places[n]]>>]
           /\ asked' = IF subClear THEN ToSet(servers0) ELSE {}
           /\ src' = IF subClear THEN <<>> ELSE Filter(servers0, DOMAIN rows)
    /\ Step("idle", IF subClear THEN "look" ELSE "add")
    /\ before' = [rows |-> rows, order |-> order, clear |-> subClear]
    /\ UNCHANGED <<tableVars, userVars, fresh, cleared, doomed, kept, replaces, previous,
                   disturbed>>

\* BatchDeleteProfiles looks at started_id: that profile is stopped (and its
\* started_id stays), or it is dropped from the list.
Look(here, there) ==
    /\ Step(here, there)
    /\ doomed' \in {asked, asked \ {startedId}}
    /\ UNCHANGED <<tableVars, userVars, remote, fresh, sticky, src, cleared, asked, kept,
                   replaces, previous, disturbed, updates, before>>

\* Mutant (#1753): what was requested is taken to be deleted.
SurvivorsForgotten(requested, deleted) == {}

Survivors(requested, deleted) == requested \ deleted

\* The rest of BatchDeleteProfiles, and of deleteProfiles.
Delete ==
    /\ order' = Filter(order, ToSet(order) \ doomed)
    /\ rows' = Restrict(rows, DOMAIN rows \ doomed)
    /\ kept' = Survivors(asked, doomed)
    /\ disturbed' = disturbed \cup doomed

\* sub_clear: the group is cleared unless somebody survived.
ClearDelete ==
    /\ Step("delete", "add")
    /\ Delete
    /\ cleared' = (kept' = {})
    /\ src' = IF kept' = {} THEN <<>>
              ELSE Filter(ServersOf(order), DOMAIN rows \ doomed)
    /\ UNCHANGED <<nextId, userVars, remote, fresh, sticky, asked, doomed, replaces, previous,
                   updates, before>>

\* AddProfileBatch: rows for all that was received, at the end of the group.
AddBatch ==
    /\ Step("add", "diff")
    /\ fresh' = [i \in DOMAIN remote |-> nextId + i - 1]
    /\ nextId' = nextId + Len(remote)
    /\ rows' = With(rows, [id \in nextId..(nextId + Len(remote) - 1) |-> remote[id - nextId + 1]])
    /\ order' = order \o fresh'
    /\ UNCHANGED <<userVars, remote, sticky, src, cleared, asked, doomed, kept, replaces,
                   previous, disturbed, updates, before>>

\* Mutant: an old one may stand for several of the new ones.
PairAgain(olds, news, key) ==
    LET mates(new) == Filter(olds, {old \in ToSet(olds) : key[old] = key[new]})
    IN  [new \in {x \in ToSet(news) : mates(x) # <<>>} |-> mates(new)[1]]

\* Pairs each of `news` with the first of `olds` of the same key nobody has claimed.
Pair(olds, news, key) ==
    LET free(claimed, new) == Filter(olds, {old \in ToSet(olds) \ claimed : key[old] = key[new]})
        paired[n \in 0..Len(news)] ==
          IF n = 0 THEN <<>>
          ELSE LET m == paired[n - 1]
                   mates == free(Range(m), news[n])
               IN  IF mates = <<>> THEN m ELSE Put(m, news[n], mates[1])
    IN  paired[Len(news)]

Identity == [id \in DOMAIN rows |-> rows[id][1]]
Others(xs, ys) == Filter(xs, {x \in ToSet(xs) : \A i \in DOMAIN ys : rows[ys[i]] # rows[x]})

\* Mutant: one that keeps its id counts as undisturbed.
ChangedQuietly(pairs) == {}

\* Those that keep their ids with other settings.
Changed(pairs) == Range(pairs)

\* Common and ChangedByIdentity. An old profile whose identity was sent with other
\* settings takes them, and keeps its id.
Diff ==
    /\ ~cleared
    /\ Step("diff", "reorder")
    /\ LET old   == Filter(src, DOMAIN rows)
           new   == Filter(ServersOf(order), ToSet(order) \ ToSet(src))
           same  == Pair(old, new, rows)
           pairs == Pair(Others(old, new), Others(new, old), Identity)
       IN  /\ replaces' = With(same, pairs)
           /\ rows' = [id \in DOMAIN rows |->
                         IF id \in Range(pairs)
                           THEN rows[CHOOSE n \in DOMAIN pairs : pairs[n] = id]
                           ELSE rows[id]]
           /\ disturbed' = disturbed \cup Changed(pairs)
           /\ asked' = ToSet(ServersOf(order))
    /\ UNCHANGED <<order, nextId, userVars, remote, fresh, sticky, src, cleared, doomed, kept,
                   previous, updates, before>>

\* A cleared group holds what was added, and that is all.
AllNew ==
    /\ cleared
    /\ Step("diff", "done")
    /\ UNCHANGED <<tableVars, userVars, remote, fresh, sticky, src, cleared, asked, doomed,
                   kept, replaces, previous, disturbed, updates, before>>

InRemoteOrder ==
    [i \in DOMAIN fresh |->
        IF fresh[i] \in DOMAIN replaces THEN replaces[fresh[i]] ELSE fresh[i]]

\* The order of the remote, with the selectors where they were.
Sorted == InsertAll(InRemoteOrder, sticky)

Reorder ==
    /\ Step("reorder", "relook")
    /\ previous' = order
    /\ order' = Sorted
    /\ asked' = asked \ ToSet(order')
    /\ doomed' = {} /\ kept' = {}
    /\ UNCHANGED <<rows, nextId, userVars, remote, fresh, sticky, src, cleared, replaces,
                   disturbed, updates, before>>

Cleanup ==
    /\ Step("redelete", "reinsert")
    /\ Delete
    /\ UNCHANGED <<nextId, userVars, remote, fresh, sticky, src, cleared, asked, doomed,
                   replaces, previous, updates, before>>

\* Where a survivor was; it goes to the end if it is not known.
PlaceOf(id) ==
    IF id \in ToSet(previous) THEN (CHOOSE i \in DOMAIN previous : previous[i] = id) - 1
    ELSE Len(order)

\* Mutant: a survivor keeps its row only.
ReinsertNothing ==
    /\ Step("reinsert", "done")
    /\ UNCHANGED <<order, rows, nextId, userVars, remote, fresh, sticky, src, cleared, asked,
                   doomed, kept, replaces, previous, disturbed, updates, before>>

\* A survivor goes back to where it was. (There is one at most.)
Reinsert ==
    /\ Step("reinsert", "done")
    /\ LET lost == kept \ ToSet(order)
           id   == CHOOSE x \in lost : TRUE
       IN  order' = IF lost = {} THEN order ELSE InsertBack(order, PlaceOf(id), id)
    /\ UNCHANGED <<rows, nextId, userVars, remote, fresh, sticky, src, cleared, asked, doomed,
                   kept, replaces, previous, disturbed, updates, before>>

\* SubscriptionGroupChanged with the group and what was disturbed; the locals go.
FinishUpdate ==
    /\ Step("done", "idle")
    /\ Locals
    /\ UNCHANGED <<tableVars, userVars, updates>>

-----------------------------------------------------------------------------
(* The user *)

Deed == deeds < MaxUser /\ deeds' = deeds + 1 /\ UNCHANGED updateVars

StartProfile(id) ==
    /\ startedId # id
    /\ Deed
    /\ startedId' = id
    /\ UNCHANGED <<tableVars, meddled>>

StopProfile ==
    /\ startedId # NoId
    /\ Deed
    /\ startedId' = NoId
    /\ UNCHANGED <<tableVars, meddled>>

\* AddProfile
AddByHand(outbound) ==
    /\ Deed
    /\ rows' = Put(rows, nextId, outbound)
    /\ order' = Append(order, nextId)
    /\ nextId' = nextId + 1
    /\ meddled' = (meddled \/ stage # "idle")
    /\ UNCHANGED startedId

\* BatchDeleteProfiles, with what runs stopped.
DeleteByHand(id) ==
    /\ Deed
    /\ rows' = Restrict(rows, DOMAIN rows \ {id})
    /\ order' = Filter(order, ToSet(order) \ {id})
    /\ meddled' = (meddled \/ stage # "idle")
    /\ UNCHANGED <<nextId, startedId>>

-----------------------------------------------------------------------------
GroupNext ==
    \/ \E servers \in Remotes, subClear \in BOOLEAN : BeginUpdate(servers, subClear)
    \/ Look("look", "delete") \/ ClearDelete \/ AddBatch \/ Diff \/ AllNew \/ Reorder
    \/ Look("relook", "redelete") \/ Cleanup \/ Reinsert \/ FinishUpdate
    \/ \E id \in DOMAIN rows : StartProfile(id) \/ DeleteByHand(id)
    \/ StopProfile
    \/ \E outbound \in Outbound \cup {Selector} : AddByHand(outbound)

GroupSpec == GroupInit /\ [][GroupNext]_groupVars

-----------------------------------------------------------------------------
(* Between refreshes the group lists each of its profiles once, and no other:
   "a survivor left out here is orphaned for good" (GroupUpdater.cpp).         *)
NothingOrphaned ==
    stage = "idle" /\ ~meddled => IsInjective(order) /\ ToSet(order) = DOMAIN rows

(* After a refresh the servers of the group are those of the remote, in its
   order and as often as it sent them, but for a survivor.                    *)
RemoteIsMirrored ==
    stage = "done" /\ ~meddled =>
        LET mine == Filter(order, {id \in ToSet(order) \ kept : rows[id] # Selector})
        IN  [i \in DOMAIN mine |-> rows[mine[i]]] = remote

(* Whoever built a profile that is gone, or is another server under the same id,
   is told: an auto selector that runs on it is rebuilt from that.             *)
DisturbedIsTold ==
    stage = "done" /\ ~meddled =>
        \A id \in DOMAIN before.rows :
            id \in disturbed \/ (id \in DOMAIN rows /\ rows[id] = before.rows[id])

(* A remote that sends what the group has changes nothing: every profile keeps its
   id, its row and its place, and none is told to be disturbed, the duplicates
   that were added for the comparison are gone, but for one that the user started
   meanwhile and that survives the cleanup. (With sub_clear they are deleted
   first; that is what it asks for.)                                          *)
SameRemoteChangesNothing ==
    LET old  == DOMAIN before.rows
        mine == Filter(before.order, {id \in ToSet(before.order) : before.rows[id] # Selector})
    IN  /\ stage = "done" /\ ~meddled /\ ~before.clear
        /\ [i \in DOMAIN mine |-> before.rows[mine[i]]] = remote
        => /\ \A id \in old : id \in DOMAIN rows /\ rows[id] = before.rows[id]
           /\ Filter(order, old) = before.order
           /\ disturbed \cap old = {}
           /\ DOMAIN rows \ old \subseteq kept
=============================================================================
