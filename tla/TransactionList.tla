--------------------------- MODULE TransactionList ---------------------------
(***************************************************************************)
(* The transaction list of the chosen account (features/TransactionSlice.ts *)
(* and pages/Accounts/useAccountSync.ts).  The wallet proxy numbers the     *)
(* transactions of the chain and answers in pages.  Three kinds of request  *)
(* change the list: a load replaces it (or appends an older page to it), a  *)
(* load of new transactions puts the newer ones in front, and a reload      *)
(* replaces it without taking the lock the other loads are queued on.  What *)
(* a request asks for is read when it is dispatched; its answer is applied  *)
(* to whatever the list is by then.                                         *)
(*                                                                         *)
(* A view is an account with a variant of its list: a filter, and whether   *)
(* the shielded balance is shown.  One step is what runs between two awaits.*)
(***************************************************************************)
EXTENDS Integers, FiniteSets, SequencesExt

CONSTANTS
  Account, Variant,
  MaxId,        \* the transactions are numbered 1..MaxId as they are made
  Owner,        \* Owner[i]: the account of transaction i
  Filter,       \* Filter[v]: what the proxy returns for the filter of v
  Incoming,     \* the incoming shielded transfers
  Shielded,     \* the variants that show the shielded balance
  Dated,        \* the variants whose filter ends at a date
  PageSize,     \* transactionLogPageSize
  Testnet,      \* whether an empty list offers a CCD drop
  MaxLoads,     \* bound: loads under way at once (and one reload)
  MaxViews,     \* bound: changes of the view
  MaxFailures   \* bound: requests that fail

Id == 1..MaxId
Load == 1..MaxLoads
NoLoad == 0
Top == MaxId + 1          \* above every transaction: no id was given
View == [account : Account, variant : Variant]
Channel == {"amount", "encrypted"}

ASSUME ConstantsAssumption ==
  /\ MaxId \in Nat /\ MaxLoads \in Nat /\ MaxViews \in Nat
  /\ MaxFailures \in Nat /\ PageSize \in Nat \ {0}
  /\ Owner \in [Id -> Account] /\ Filter \in [Variant -> SUBSET Id]
  /\ Incoming \subseteq Id /\ Shielded \subseteq Variant
  /\ Dated \subseteq Variant /\ Testnet \in BOOLEAN

VARIABLES
  chain,      \* the transactions made so far are 1..chain
  view,       \* the chosen account and the variant of its list
  entered,    \* the accounts whose accountInfo is in the store
  seen,       \* seen[a]: the transactions the accountInfo of a reflects
  list,       \* state.transactions, newest first
  hasMore,    \* state.hasMore
  loading,    \* state.loadingTransactions
  latest,     \* latestLoadingRequestId
  loads,      \* loads[l]: a call of loadTransactions, or a reload
  queue,      \* the forced loads that hold (first) or wait for forceLock
  own,        \* the load the view's effect has dispatched
  loadIsDone, \* whether the view has loaded once
  news,       \* news[c]: a call of loadNewTransactions
  overtaken,  \* a request older than the list was merged into it
  views, failures

vars == <<chain, view, entered, seen, list, hasMore, loading, latest, loads,
          queue, own, loadIsDone, news, overtaken, views, failures>>

shown == <<list, hasMore, loading>>
bounds == <<views, failures>>
world == <<chain, entered, seen>>

NoView == CHOOSE w \in View : TRUE
FreeLoad == [step |-> "free", kind |-> "load", view |-> NoView, min |-> Top,
             size |-> PageSize, got |-> <<>>, more |-> FALSE, live |-> FALSE,
             older |-> FALSE]
NoNews == [step |-> "idle", variant |-> NoView.variant, max |-> 0,
           known |-> {}, got |-> <<>>, older |-> FALSE]

Init ==
  /\ chain = 0
  /\ view \in View
  /\ entered = {}
  /\ seen = [a \in Account |-> 0]
  /\ list = <<>> /\ hasMore = FALSE /\ loading = FALSE
  /\ latest = NoLoad
  /\ loads = [l \in Load |-> FreeLoad]
  /\ queue = <<>>
  /\ own = NoLoad
  /\ loadIsDone = FALSE
  /\ news = [c \in Channel |-> NoNews]
  /\ overtaken = FALSE
  /\ views = 0 /\ failures = 0

-----------------------------------------------------------------------------
(* The wallet proxy. *)

Answerable(w, ids) ==
  {i \in ids : i <= chain /\ Owner[i] = w.account /\ i \in Filter[w.variant]}

FirstOf(s, n) == SubSeq(s, 1, IF Len(s) < n THEN Len(s) ELSE n)

\* The newest n transactions below id, and the oldest n above it.
Descending(w, id, n) ==
  FirstOf(SetToSortSeq(Answerable(w, 1..(id - 1)), >), n)
Ascending(w, id, n) ==
  FirstOf(SetToSortSeq(Answerable(w, (id + 1)..MaxId), <), n)

\* A list of the public balance leaves out incoming shielded transfers.
Kept(w, page) ==
  IF w.variant \in Shielded THEN page
  ELSE SelectSeq(page, LAMBDA i : i \notin Incoming)

Make ==
  /\ chain < MaxId
  /\ chain' = chain + 1
  /\ UNCHANGED <<view, entered, seen, shown, latest, loads, queue, own,
                 loadIsDone, news, overtaken, bounds>>

-----------------------------------------------------------------------------
(* loadTransactions. *)

Free == {l \in Load : loads[l].step = "free"}
NextFree == CHOOSE l \in Free : \A k \in Free : l <= k

\* The list is replaced: what is under way is older than it.
Outdated(requests, idle) ==
  [r \in DOMAIN requests |-> IF requests[r].step = idle THEN requests[r]
                             ELSE [requests[r] EXCEPT !.older = TRUE]]
OlderNews == Outdated(news, "idle")

\* Mutant: the page below the newest transaction of the list.
FromNewest == IF list = <<>> THEN Top ELSE Head(list)

Oldest == IF list = <<>> THEN Top ELSE Last(list)
Newest == IF list = <<>> THEN 0 ELSE Head(list)

\* A forced load reads the state, becomes the latest and queues for the lock.
Forced(kind, w) ==
  [step |-> "queued", kind |-> kind, view |-> w,
   min |-> IF kind = "append" THEN Oldest ELSE Top,
   size |-> PageSize, got |-> <<>>, more |-> FALSE, live |-> TRUE,
   older |-> FALSE]

\* The view's effect: it empties the list and loads it anew.
StartOwn(w, others) ==
  /\ Free # {}
  /\ list' = <<>>
  /\ hasMore' = FALSE
  /\ loading' = TRUE
  /\ latest' = NextFree
  /\ loads' = [Outdated(others, "free") EXCEPT 
                 ![NextFree] = Forced("load", w)]
  /\ queue' = Append(queue, NextFree)
  /\ own' = NextFree

\* The thunk of an aborted load is rejected at once and its code runs on.
Abort(l) == [k \in Load |-> IF k = l THEN [loads[k] EXCEPT !.live = FALSE]
                                     ELSE loads[k]]

\* The list scrolls to its end.
LoadMore ==
  /\ ~ loading /\ hasMore
  /\ Free # {}
  /\ loading' = TRUE
  /\ latest' = NextFree
  /\ loads' = [loads EXCEPT ![NextFree] = Forced("append", view)]
  /\ queue' = Append(queue, NextFree)
  /\ UNCHANGED <<world, view, list, hasMore, own, loadIsDone, news, overtaken,
                 bounds>>

\* Who has no lock to release is gone when it is finished.
Gone(l) == IF loads[l].kind = "reload" THEN FreeLoad
           ELSE [FreeLoad EXCEPT !.step = "leaving"]

\* The lock is acquired.  An aborted load gives up, a forced one goes on even
\* when it is not the latest.
Acquire(l) ==
  /\ loads[l].step = "queued"
  /\ Head(queue) = l
  /\ loads' = [loads EXCEPT ![l] =
                 IF loads[l].live THEN [@ EXCEPT !.step = "asking"] ELSE Gone(l)]
  /\ UNCHANGED <<world, view, shown, latest, queue, own, loadIsDone, news,
                 overtaken, bounds>>

\* rejectIfInvalid
Invalid(l) ==
  ~ loads[l].live \/ (latest # l /\ loads[l].kind = "reload")

\* A page arrives; when the wallet's own filter has thinned out a full page,
\* the next one is asked for.
Answer(l) ==
  LET ld == loads[l]
      page == Descending(ld.view, ld.min, ld.size)
      got == ld.got \o Kept(ld.view, page)
      full == Len(page) = ld.size
  IN /\ ld.step = "asking"
     /\ loads' = [loads EXCEPT ![l] =
          IF ~ (full /\ Len(got) < ld.size)
          THEN [ld EXCEPT !.step = "answered", !.got = got, !.more = full]
          ELSE IF Invalid(l)
          THEN Gone(l)
          ELSE [ld EXCEPT !.got = got, !.min = Last(page)]]
     /\ UNCHANGED <<world, view, shown, latest, queue, own, loadIsDone, news,
                    overtaken, bounds>>

\* fulfilled
Finish(l) ==
  LET ld == loads[l] IN
  /\ ld.step = "answered"
  /\ IF ~ ld.live
     THEN /\ loads' = [loads EXCEPT ![l] = Gone(l)]
          /\ UNCHANGED <<shown, loadIsDone, news, overtaken>>
     ELSE /\ hasMore' = ld.more
          /\ loading' = (loading /\ latest # l)
          /\ loadIsDone' = (loadIsDone \/ own = l)
          /\ IF ld.kind = "append"
             THEN /\ list' = list \o ld.got
                  /\ loads' = [loads EXCEPT ![l] = Gone(l)]
                  /\ overtaken' = (overtaken \/ ld.older)
                  /\ UNCHANGED news
             ELSE /\ list' = ld.got
                  /\ loads' = [Outdated(loads, "free") EXCEPT ![l] = Gone(l)]
                  /\ overtaken' = (ld.kind = "reload"
                                     /\ (ld.older \/ ld.view # view))
                  /\ news' = OlderNews
  /\ UNCHANGED <<world, view, latest, queue, own, bounds>>

\* rejected
Fail(l) ==
  /\ loads[l].step \in {"asking", "answered"}
  /\ failures < MaxFailures
  /\ failures' = failures + 1
  /\ loads' = [loads EXCEPT ![l] = Gone(l)]
  /\ loading' = (loading /\ ~ (latest = l /\ loads[l].live))
  /\ UNCHANGED <<world, view, list, hasMore, latest, queue, own, loadIsDone,
                 news, overtaken, views>>

-----------------------------------------------------------------------------
(* The lock is released by a timer, which wakes the reload that waits for it. *)

Reloads == {l \in Load : loads[l].kind = "reload"}

\* What the reload loads is read when it has waited; onlyLoadShielded is not.
Reloading(w) ==
  [FreeLoad EXCEPT !.kind = "reload", !.step = "asking", !.live = TRUE,
     !.view = IF view.variant \in Shielded
              THEN [w EXCEPT !.account = view.account] ELSE view,
     !.size = IF Len(list) > PageSize THEN Len(list) ELSE PageSize]

\* reloadTransactions, after a CCD drop on an empty list.
Reload ==
  /\ Testnet
  /\ list = <<>> /\ ~ loading /\ view.variant \notin Shielded
  /\ view.account \in entered
  /\ Free # {} /\ Reloads = {}
  /\ IF queue = <<>>
     THEN /\ loads' = [loads EXCEPT ![NextFree] = Reloading(view)]
          /\ latest' = NextFree
     ELSE /\ loads' = [loads EXCEPT ![NextFree] =
                         [FreeLoad EXCEPT !.kind = "reload", !.view = view,
                                          !.step = "waiting"]]
          /\ UNCHANGED latest
  /\ UNCHANGED <<world, view, shown, queue, own, loadIsDone, news, overtaken,
                 bounds>>

Waiting == {l \in Reloads : loads[l].step = "waiting"}

\* Mutant: the lock is kept.
KeepLock(l) ==
  /\ loads[l].step = "leaving"
  /\ loads' = [loads EXCEPT ![l] = FreeLoad]
  /\ own' = IF own = l THEN NoLoad ELSE own
  /\ UNCHANGED <<world, view, shown, latest, queue, loadIsDone, news,
                 overtaken, bounds>>

Release(l) ==
  /\ loads[l].step = "leaving"
  /\ queue' = Tail(queue)
  /\ loads' = [k \in Load |->
                 CASE k = l -> FreeLoad
                   [] k \in Waiting -> Reloading(loads[k].view)
                   [] OTHER -> loads[k]]
  /\ \/ Waiting = {} /\ UNCHANGED latest
     \/ latest' \in Waiting
  /\ own' = IF own = l THEN NoLoad ELSE own
  /\ UNCHANGED <<world, view, shown, loadIsDone, news, overtaken, bounds>>

-----------------------------------------------------------------------------
(* loadNewTransactions. *)

ChannelOf(v) == IF v \in Shielded THEN "encrypted" ELSE "amount"

StartNews ==
  [step |-> "asking", variant |-> view.variant, max |-> Newest,
   known |-> ToSet(list), got |-> <<>>, older |-> FALSE]

NewsView(c) == [account |-> view.account, variant |-> news[c].variant]

AnswerNews(c) ==
  LET n == news[c]
      page == Ascending(NewsView(c), n.max, PageSize)
  IN /\ n.step = "asking"
     /\ news' = [news EXCEPT ![c] =
          IF page = <<>> THEN [n EXCEPT !.step = "answered"]
          ELSE [n EXCEPT !.got = n.got \o page, !.max = Last(page),
                  !.step = IF Len(page) = PageSize THEN "asking"
                                                   ELSE "answered"]]
     /\ UNCHANGED <<world, view, shown, latest, loads, queue, own, loadIsDone,
                    overtaken, bounds>>

FinishNews(c) ==
  /\ news[c].step = "answered"
  /\ list' = SelectSeq(Reverse(news[c].got),
                       LAMBDA i : i \notin news[c].known) \o list
  /\ news' = [news EXCEPT ![c] = NoNews]
  /\ overtaken' = (overtaken \/ news[c].older)
  /\ UNCHANGED <<world, view, hasMore, loading, latest, loads, queue, own,
                 loadIsDone, bounds>>

FailNews(c) ==
  /\ news[c].step = "asking"
  /\ failures < MaxFailures
  /\ failures' = failures + 1
  /\ news' = [news EXCEPT ![c] = NoNews]
  /\ UNCHANGED <<world, view, shown, latest, loads, queue, own, loadIsDone,
                 overtaken, views>>

-----------------------------------------------------------------------------
(* The view. *)

\* The first accountInfo of the account: the list is loaded.
EnterInfo ==
  LET a == view.account IN
  /\ a \notin entered
  /\ entered' = entered \union {a}
  /\ seen' = [seen EXCEPT ![a] = chain]
  /\ StartOwn(view, loads)
  /\ news' = OlderNews
  /\ overtaken' = FALSE
  /\ UNCHANGED <<chain, view, loadIsDone, bounds>>

\* A later one: the effect of an amount that has changed stops the request
\* of the effect's last run, and asks again if the list shows that balance.
UpdateInfo ==
  LET a == view.account
      made == {i \in (seen[a] + 1)..chain : Owner[i] = a}
      changed == {c \in Channel : \E i \in made :
                    c = IF i \in Incoming THEN "encrypted" ELSE "amount"}
      asks(c) == /\ c = ChannelOf(view.variant)
                 /\ loadIsDone
                 /\ view.variant \notin Dated
  IN /\ a \in entered
     /\ changed # {}
     /\ seen' = [seen EXCEPT ![a] = chain]
     /\ news' = [c \in Channel |-> IF c \notin changed THEN news[c]
                                   ELSE IF asks(c) THEN StartNews ELSE NoNews]
     /\ UNCHANGED <<chain, view, entered, shown, latest, loads, queue, own,
                    loadIsDone, overtaken, bounds>>

\* Without accountInfo nothing is loaded or emptied.
LeaveList(w) ==
  /\ loads' = IF own = NoLoad THEN loads ELSE Abort(own)
  /\ own' = NoLoad
  /\ loading' = (loading /\ ~ (own # NoLoad /\ latest = own))
  /\ hasMore' = (hasMore /\ (w.variant \in Shielded <=> 
                               view.variant \in Shielded))
  /\ UNCHANGED <<list, latest, queue>>

ShowView(w) ==
  IF w.account \in entered
  THEN /\ StartOwn(w, IF own = NoLoad THEN loads ELSE Abort(own))
       /\ overtaken' = FALSE
  ELSE LeaveList(w) /\ UNCHANGED overtaken

\* Another account: the page is mounted anew and all its effects cleaned up.
ChooseAccount(a) ==
  LET w == [view EXCEPT !.account = a] IN
  /\ a # view.account
  /\ views < MaxViews
  /\ views' = views + 1
  /\ view' = w
  /\ ShowView(w)
  /\ loadIsDone' = FALSE
  /\ news' = [c \in Channel |-> NoNews]
  /\ UNCHANGED <<chain, entered, seen, failures>>

\* Another filter, or the other balance: only the effect's load is stopped.
ChooseVariant(v) ==
  LET w == [view EXCEPT !.variant = v] IN
  /\ v # view.variant
  /\ views < MaxViews
  /\ views' = views + 1
  /\ view' = w
  /\ ShowView(w)
  /\ news' = IF w.account \in entered THEN OlderNews ELSE news
  /\ UNCHANGED <<chain, entered, seen, loadIsDone, failures>>

-----------------------------------------------------------------------------
LoadStep(l) == Acquire(l) \/ Answer(l) \/ Finish(l) \/ Release(l)
NewsStep(c) == AnswerNews(c) \/ FinishNews(c)

Next ==
  \/ Make
  \/ LoadMore
  \/ Reload
  \/ EnterInfo
  \/ UpdateInfo
  \/ \E l \in Load : LoadStep(l) \/ Fail(l)
  \/ \E c \in Channel : NewsStep(c) \/ FailNews(c)
  \/ \E a \in Account : ChooseAccount(a)
  \/ \E v \in Variant : ChooseVariant(v)

Spec == Init /\ [][Next]_vars

\* Every request to the proxy ends, with an answer or an error, and the code in
\* between runs.  The code sets no time limit of its own (preload/http.ts:38): that a
\* request ends is assumed of the network and the proxy, not granted by the wallet.
Fairness ==
  /\ \A l \in Load : WF_vars(LoadStep(l))
  /\ \A c \in Channel : WF_vars(NewsStep(c))

FairSpec == Spec /\ Fairness

-----------------------------------------------------------------------------
(* Properties. *)

\* The state holds values of its types, and a forced load is in the queue
\* exactly from its dispatch to the release of the lock.
TypeOK ==
  /\ chain \in 0..MaxId
  /\ view \in View
  /\ entered \subseteq Account
  /\ seen \in [Account -> 0..MaxId]
  /\ list \in Seq(Id) /\ hasMore \in BOOLEAN /\ loading \in BOOLEAN
  /\ latest \in Load \union {NoLoad} /\ own \in Load \union {NoLoad}
  /\ \A l \in Load :
       /\ loads[l].step \in {"free", "waiting", "queued", "asking", "answered",
                             "leaving"}
       /\ loads[l].kind \in {"load", "append", "reload"}
       /\ loads[l].view \in View
       /\ loads[l].got \in Seq(Id)
       /\ l \in ToSet(queue) <=> loads[l].kind # "reload" 
                                   /\ loads[l].step # "free"
  /\ IsInjective(queue)
  /\ \A c \in Channel : news[c].step \in {"idle", "asking", "answered"}

UnderWay(l) == loads[l].live /\ loads[l].step \notin {"free", "leaving"}

\* Nothing is on its way to the list.
Settled ==
  /\ loadIsDone /\ \A c \in Channel : news[c].step = "idle"
  /\ \A l \in Load : ~ UnderWay(l)

Belongs(i) ==
  /\ Owner[i] = view.account
  /\ i \in Filter[view.variant]
  /\ view.variant \in Shielded \/ i \notin Incoming

\* transactionsSelector: what is shown of the list.
Selected ==
  SelectSeq(list, LAMBDA i : view.variant \in Shielded <=> i \in Incoming)

\* What is shown is newest first, belongs to the view, and leaves nothing
\* out between its ends, nor below them unless it says there is more.
ListIsWhole ==
  /\ \A i, j \in DOMAIN Selected : i < j => Selected[i] > Selected[j]
  /\ \A i \in ToSet(Selected) : Belongs(i)
  /\ Selected # <<>> =>
       \A i \in 1..Head(Selected) :
         Belongs(i) /\ (i >= Last(Selected) \/ ~ hasMore)
           => i \in ToSet(Selected)

\* The list a view has settled on is the list of that view, unless a request
\* that is older than the list was merged into it: changes of the account,
\* aborted loads that run on under the lock, pages that are thinned out and
\* requests that fail do it no harm.
SettledListIsWhole == Settled /\ ~ overtaken => ListIsWhole

\* The same without the exception, which the comments of getTransactions and
\* loadNewTransactions rely on (sorted descendingly, not already in the state).
ListIsAlwaysWhole == Settled => ListIsWhole

\* When every request ends, so does every load, those that wait for the lock or
\* for its release too: time and again nothing is under way and the lock is free.
LoadsEnd == []<>(\A l \in Load : loads[l].step = "free")
=============================================================================
