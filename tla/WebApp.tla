--------------------------------- MODULE WebApp ---------------------------------
(***************************************************************************)
(* The web application: its pages with the routes they ask, the wallet,    *)
(* and the rate limiter of the routes.  The parts share no state, for one  *)
(* page is open at a time and opening another unmounts it; the state of    *)
(* the parts that are not looked at is that of one initial state.          *)
(*                                                                         *)
(* Fairness: a request is answered in the end, or given up (apiFetch       *)
(* aborts after 15 s, the browser and Freighter give up on the others).    *)
(* Nothing is assumed of the user, of other clients or of the network.     *)
(***************************************************************************)
EXTENDS FeedPage, VirtualList, SearchPage, ListPages, DeliveryLog, StatsPages,
        SettingsPage, WalletPage, BalanceDisplay, RateLimiter, Timeseries

VARIABLE part   \* the part that is looked at

Parts == {"feed", "rows", "search", "lists", "log", "stats", "settings",
          "wallet", "balance", "limiter", "series"}

(* The parts that are not looked at: one initial state of each.            *)
OthersFixed ==
  /\ part # "rows" => height = 1
  /\ part # "lists" => listPage = "webhooks" /\ created = 0
  /\ part # "stats" => statsPage = "overview" /\ range = CHOOSE r \in Ranges : TRUE
  /\ part # "settings" => stored = {} /\ form = {CHOOSE c \in Channels : TRUE}
  /\ part # "wallet" => txKind = "payment"
  /\ part # "balance" => display = "connected" /\ accountFunds = 0

Init ==
  /\ part \in Parts
  /\ FeedInit /\ ListInit /\ SearchInit /\ ListPagesInit /\ LogInit /\ StatsInit
  /\ SettingsInit /\ WalletInit /\ BalanceInit /\ LimiterInit /\ SeriesInit
  /\ OthersFixed

Next ==
  /\ UNCHANGED part
  /\ IF part = "feed" THEN FeedNext ELSE UNCHANGED feedVars
  /\ IF part = "rows" THEN ListNext ELSE UNCHANGED listVars
  /\ IF part = "search" THEN SearchNext ELSE UNCHANGED searchVars
  /\ IF part = "lists" THEN ListPagesNext ELSE UNCHANGED listPageVars
  /\ IF part = "log" THEN LogNext ELSE UNCHANGED logVars
  /\ IF part = "stats" THEN StatsNext ELSE UNCHANGED statsVars
  /\ IF part = "settings" THEN SettingsNext ELSE UNCHANGED settingsVars
  /\ IF part = "wallet" THEN WalletNext ELSE UNCHANGED walletVars
  /\ IF part = "balance" THEN BalanceNext ELSE UNCHANGED balanceVars
  /\ IF part = "limiter" THEN LimiterNext ELSE UNCHANGED limiterVars
  /\ IF part = "series" THEN SeriesNext ELSE UNCHANGED seriesVars

vars == <<part, feedVars, listVars, searchVars, listPageVars, logVars, statsVars,
          settingsVars, walletVars, balanceVars, limiterVars, seriesVars>>

Answers ==
  /\ WF_searchVars(part = "search" /\ \E r \in searches : SearchAnswers(r))
  /\ WF_listPageVars(part = "lists" /\ (Serve \/ \E r \in requests : Lost(r) \/ ListAnswers(r)))
  /\ WF_logVars(part = "log" /\ \E l \in logLoads : LogAnswer(l))
  /\ WF_statsVars(part = "stats" /\ \E l \in loads : StatsAnswer(l))
  /\ WF_settingsVars(part = "settings" /\ \E r \in calls : SettingsAnswer(r))
  /\ WF_walletVars(part = "wallet" /\ WalletAnswers)
  /\ WF_walletVars(part = "wallet" /\ DialogAnswers)
  /\ WF_balanceVars(part = "balance" /\ \E l \in balanceLoads : OnBalance(l))

Spec == Init /\ [][Next]_vars /\ Answers

-----------------------------------------------------------------------------
(* What the pages show, and the routes of figures answer, fits the         *)
(* question that was asked: the query, the range, the form, the webhook,   *)
(* the account, the buckets (see the parts of each).                       *)
AnswersFit ==
  SearchFits /\ StatsFit /\ SettingsFit /\ LogShown /\ BalanceFits /\ SeriesFit

(* The feed keeps what arrives, in order, announces it once, mirrors it in *)
(* storage, and renders the rows in view, over a server that counts its    *)
(* connections (see the parts).                                            *)
FeedShows == FeedHolds /\ RowsRendered

(* No page is busy for good: every skeleton, disabled button and spinner   *)
(* ends, but that of "load more" when a search superseded it.              *)
Busy ==
  CASE part = "search" -> SearchSpins
    [] part = "lists" -> ListSpins
    [] part = "log" -> deliveryLoading
    [] part = "stats" -> StatsSpins
    [] part = "settings" -> SettingsSpins
    [] part = "wallet" -> IsSending \/ walletState = "connecting"
    [] part = "balance" -> balanceLoading
    [] OTHER -> FALSE
SpinnersStop == Busy ~> ~Busy
=============================================================================
