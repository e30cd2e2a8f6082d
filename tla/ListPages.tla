-------------------------------- MODULE ListPages --------------------------------
(***************************************************************************)
(* Three pages that show a list of rows of the server and change it: the   *)
(* webhooks page, the API keys of the developers page and the monitored    *)
(* wallets.  A page sends requests that the server serves in any order     *)
(* and whose answers arrive in any order; a request may fail before or     *)
(* after it was served (apiFetch gives up after 15 s).  listPage says      *)
(* which of the three is open.                                             *)
(*                                                                         *)
(* The code as it is: the routes list the newest rows only, and no page    *)
(* asks for more, so older rows never show (pageEnd is where they begin);  *)
(* a list read before a change may arrive after it (doubt); and a row shows*)
(* as it was until the next load when the answer to its change is lost, or *)
(* when another client changed it (staleRows).                             *)
(*                                                                         *)
(* Rows are numbered in the order of createdAt; rows of one millisecond,   *)
(* which the routes may list in any order, are not modelled.               *)
(***************************************************************************)
EXTENDS Integers, Sequences, FiniteSets, SequencesExt

CONSTANTS
  MaxRows,         \* bound: rows ever
  MaxListRequests, \* bound: requests a page sends
  ListLimit,       \* rows a route lists: 20 webhooks, 100 keys, 50 wallets
  NotLoaded        \* the wallets before the first answer

ASSUME ListPagesAssumption ==
  MaxRows \in Nat \ {0} /\ MaxListRequests \in Nat /\ ListLimit \in Nat \ {0}

VARIABLES
  listPage,     \* "webhooks", "keys" or "wallets"
  rows,         \* server: the rows listed, which are numbered as created
  created,      \* server: rows created so far
  mine,         \* server, wallets: the row of the connected wallet, or 0
  list,         \* page: the rows shown, or NotLoaded
  loading, error, formOpen, creating, formError,
  revokingId,   \* keys: the one row whose button is disabled, or 0
  createdSecret,\* keys: the row whose secret is shown, or 0
  requests, sent,
  doubt,        \* history: the list shown was read beside a change
  staleRows,    \* history: rows changed since it was, and not by an answer
  pageEnd       \* history: the last row of a list that was cut there, or 0

serverRows == <<rows, created, mine>>
listHistory == <<doubt, staleRows, pageEnd>>
formVars == <<formOpen, creating, formError, createdSecret>>
listPageVars == <<listPage, serverRows, list, loading, error, formVars, revokingId,
              requests, sent, listHistory>>

(* filter: the entries of s that are in S.                                 *)
Kept(s, S) ==
  LET kept[n \in 0..Len(s)] ==
        IF n = 0 THEN <<>>
        ELSE IF s[n] \in S THEN Append(kept[n - 1], s[n]) ELSE kept[n - 1]
  IN  kept[Len(s)]

(* Rows are listed with the newest first, and no more than the limit.  A   *)
(* list as long as that was cut at its last row, or ends there anyway.     *)
FirstRows(s) == IF Len(s) > ListLimit THEN SubSeq(s, 1, ListLimit) ELSE s
Listed(S) == FirstRows(Kept([i \in 1..created |-> created + 1 - i], S))
EndOf(s) == IF Len(s) = ListLimit THEN s[ListLimit] ELSE 0

Request(kind, id) ==
  [kind |-> kind, id |-> id, n |-> sent + 1, served |-> FALSE, ok |-> FALSE,
   answer |-> <<>>, alone |-> requests = {}]

(* alone: nothing else was under way while the request was.                *)
NotAlone(R) == {[r EXCEPT !.alone = FALSE] : r \in R}
Send(kind, id) ==
  /\ sent < MaxListRequests /\ sent' = sent + 1
  /\ requests' = NotAlone(requests) \cup {Request(kind, id)}
Arrives(r) == r \in requests /\ requests' = requests \ {r}

ListPagesInit ==
  /\ listPage \in {"webhooks", "keys", "wallets"}
  /\ created \in 0..MaxRows /\ rows = 1..created /\ mine = 0
  /\ list = IF listPage = "wallets" THEN NotLoaded ELSE <<>>
  /\ loading = TRUE /\ error = FALSE /\ formOpen = FALSE /\ creating = FALSE
  /\ formError = FALSE /\ revokingId = 0 /\ createdSecret = 0
  /\ sent = 1 /\ doubt = TRUE /\ staleRows = {} /\ pageEnd = 0
  /\ requests = {[kind |-> "list", id |-> 0, n |-> 1, served |-> FALSE, ok |-> FALSE,
                  answer |-> <<>>, alone |-> TRUE]}

-----------------------------------------------------------------------------
(* The routes: the newest rows; a new row; one row less, which is refused  *)
(* if it is gone already.                                                  *)
Served(r, ok, answer) ==
  requests' = (requests \ {r}) \cup {[r EXCEPT !.served = TRUE, !.ok = ok, !.answer = answer]}

GetRows(r) ==
  /\ r.kind = "list" /\ Served(r, TRUE, Listed(rows))
  /\ UNCHANGED <<rows, created>>

PostRow(r) ==
  /\ r.kind = "create" /\ created < MaxRows
  /\ created' = created + 1 /\ rows' = rows \cup {created + 1}
  /\ Served(r, TRUE, <<created + 1>>)

DeleteRow(r) ==
  /\ r.kind = "remove" /\ Served(r, r.id \in rows, <<>>)
  /\ rows' = rows \ {r.id} /\ UNCHANGED created

WebhookRoutes(r) ==
  /\ listPage = "webhooks" /\ UNCHANGED mine
  /\ GetRows(r) \/ PostRow(r) \/ DeleteRow(r)

(* A key that is revoked stays in the table and is not listed.             *)
RevokeKey(r) == DeleteRow(r)
KeyRoutes(r) ==
  /\ listPage = "keys" /\ UNCHANGED mine
  /\ GetRows(r) \/ PostRow(r) \/ RevokeKey(r)

(* A wallet that is tracked already is refused (P2002).                    *)
WalletRoutes(r) ==
  /\ listPage = "wallets"
  /\ \/ GetRows(r) /\ UNCHANGED mine
     \/ mine = 0 /\ PostRow(r) /\ mine' = created + 1
     \/ /\ mine # 0 /\ r.kind = "create" /\ Served(r, FALSE, <<>>)
        /\ UNCHANGED serverRows

Serve ==
  /\ \E r \in requests : ~r.served /\ (WebhookRoutes(r) \/ KeyRoutes(r) \/ WalletRoutes(r))
  /\ UNCHANGED <<listPage, list, loading, error, formVars, revokingId, sent, listHistory>>

OtherClient ==
  /\ \/ /\ created < MaxRows /\ created' = created + 1 /\ rows' = rows \cup {created + 1}
        /\ staleRows' = staleRows \cup {created + 1}
     \/ /\ listPage # "wallets" /\ UNCHANGED created
        /\ \E id \in rows : rows' = rows \ {id} /\ staleRows' = staleRows \cup {id}
  /\ requests' = NotAlone(requests)
  /\ UNCHANGED <<listPage, mine, list, loading, error, formVars, revokingId, sent, doubt, pageEnd>>

Answered(r) == r.served /\ r.ok

-----------------------------------------------------------------------------
(* The retry of the webhooks page and of the keys; the wallets can be      *)
(* refreshed at any time.                                                  *)
LoadWebhooks ==
  listPage = "webhooks" /\ error /\ loading' = TRUE /\ error' = FALSE
LoadKeys ==
  listPage = "keys" /\ error /\ loading' = TRUE /\ error' = FALSE
LoadWallets ==
  listPage = "wallets" /\ UNCHANGED <<loading, error>>

Reload ==
  /\ LoadWebhooks \/ LoadKeys \/ LoadWallets
  /\ Send("list", 0)
  /\ UNCHANGED <<listPage, serverRows, list, formVars, revokingId, listHistory>>

(* The load that ends trackConnectedWallet.                                *)
Tracking == -1

OnList(r) ==
  /\ r.kind = "list" /\ Arrives(r) /\ loading' = FALSE
  /\ creating' = (creating /\ r.id # Tracking)
  /\ IF Answered(r)
     THEN /\ list' = r.answer /\ error' = (error /\ listPage # "wallets")
          /\ doubt' = ~r.alone /\ staleRows' = {} /\ pageEnd' = EndOf(r.answer)
     ELSE error' = TRUE /\ UNCHANGED <<list, listHistory>>
  /\ UNCHANGED <<listPage, serverRows, formOpen, formError, createdSecret, revokingId, sent>>

-----------------------------------------------------------------------------
(* The buttons each page offers.                                           *)
WebhooksView ==
  (IF error THEN {"retry", "dismiss"} ELSE {})
  \cup (IF formOpen /\ ~creating THEN {"submit"} ELSE {})
  \cup (IF loading THEN {} ELSE {"rows"})

KeysView ==
  (IF error THEN {"retry"} ELSE {})
  \cup (IF formOpen /\ ~creating THEN {"submit"} ELSE {})
  \cup (IF createdSecret # 0 THEN {"dismiss secret"} ELSE {})
  \cup (IF loading THEN {} ELSE {"rows"})

WalletsView ==
  IF list = <<>> /\ ~error /\ ~creating THEN {"submit"} ELSE {}

View == CASE listPage = "webhooks" -> WebhooksView
          [] listPage = "keys" -> KeysView
          [] listPage = "wallets" -> WalletsView

ToggleForm ==
  /\ listPage # "wallets"
  /\ formOpen' = ~formOpen
  /\ formError' = IF listPage = "webhooks" /\ formOpen THEN formError ELSE FALSE
  /\ UNCHANGED <<listPage, serverRows, list, loading, error, creating,
                 createdSecret, revokingId, requests, sent, listHistory>>

Dismiss ==
  /\ \/ "dismiss" \in View /\ error' = FALSE /\ UNCHANGED createdSecret
     \/ "dismiss secret" \in View /\ createdSecret' = 0 /\ UNCHANGED error
  /\ UNCHANGED <<listPage, serverRows, list, loading, formOpen, creating, formError,
                 revokingId, requests, sent, listHistory>>

(* handleCreate: a form that is not valid is refused on the page.          *)
Submit ==
  /\ creating' = TRUE /\ formError' = FALSE
  /\ Send("create", 0)
Invalid == listPage # "wallets" /\ formError' = TRUE /\ UNCHANGED <<creating, requests, sent>>
HandleCreate ==
  /\ "submit" \in View /\ (Submit \/ Invalid)
  /\ UNCHANGED <<listPage, serverRows, list, loading, error, formOpen,
                 createdSecret, revokingId, listHistory>>

(* Its answer: the new row is put in front of the list.                    *)
CreatedWebhook(r) ==
  /\ listPage = "webhooks" /\ Arrives(r) /\ creating' = FALSE
  /\ IF Answered(r)
     THEN list' = r.answer \o list /\ formOpen' = FALSE /\ UNCHANGED formError
     ELSE formError' = TRUE /\ UNCHANGED <<list, formOpen>>
  /\ UNCHANGED <<createdSecret, sent>>

CreatedKey(r) ==
  /\ listPage = "keys" /\ Arrives(r) /\ creating' = FALSE
  /\ IF Answered(r)
     THEN /\ list' = r.answer \o list /\ formOpen' = FALSE /\ UNCHANGED formError
          /\ createdSecret' = Head(r.answer)
     ELSE formError' = TRUE /\ UNCHANGED <<list, formOpen, createdSecret>>
  /\ UNCHANGED sent

(* trackConnectedWallet goes on with a load, and tracks until it is done.  *)
Tracked(r) ==
  /\ listPage = "wallets"
  /\ IF Answered(r)
     THEN /\ sent' = sent + 1
          /\ requests' = NotAlone(requests \ {r}) \cup
               {[Request("list", Tracking) EXCEPT !.alone = requests = {r}]}
          /\ UNCHANGED <<creating, formError>>
     ELSE /\ requests' = requests \ {r} /\ UNCHANGED sent
          /\ creating' = FALSE /\ formError' = TRUE
  /\ UNCHANGED <<list, formOpen, createdSecret>>

OnCreated(r) ==
  /\ r.kind = "create" /\ (CreatedWebhook(r) \/ CreatedKey(r) \/ Tracked(r))
  /\ UNCHANGED <<listPage, serverRows, loading, error, revokingId, listHistory>>

(* handleDelete and handleRevoke; only the latter disables a button.       *)
HandleDelete == listPage = "webhooks" /\ UNCHANGED revokingId
HandleRevoke(id) == listPage = "keys" /\ id # revokingId /\ revokingId' = id
HandleRemove(id) ==
  /\ "rows" \in View /\ id \in Range(list)
  /\ HandleDelete \/ HandleRevoke(id)
  /\ Send("remove", id)
  /\ UNCHANGED <<listPage, serverRows, list, loading, error, formVars, listHistory>>

Without(id) == Kept(list, Range(list) \ {id})

(* Seeded bug: the row goes whatever the answer is.                        *)
DeletedAlways(r) ==
  /\ listPage = "webhooks" /\ UNCHANGED revokingId
  /\ list' = Without(r.id) /\ UNCHANGED error

(* Seeded bug: the button is enabled again only by a success.              *)
RevokedInTry(r) ==
  /\ listPage = "keys" /\ UNCHANGED error
  /\ IF Answered(r) THEN revokingId' = 0 /\ list' = Without(r.id)
     ELSE UNCHANGED <<revokingId, list>>

(* The answers to them: a refused deletion is an error of the page, a      *)
(* refused revocation an alert; either row stays.                          *)
Deleted(r) ==
  /\ listPage = "webhooks" /\ UNCHANGED revokingId
  /\ IF Answered(r) THEN list' = Without(r.id) /\ UNCHANGED error
     ELSE error' = TRUE /\ UNCHANGED list
Revoked(r) ==
  /\ listPage = "keys" /\ revokingId' = 0 /\ UNCHANGED error
  /\ list' = IF Answered(r) THEN Without(r.id) ELSE list

OnRemoved(r) ==
  /\ r.kind = "remove" /\ Arrives(r) /\ (Deleted(r) \/ Revoked(r))
  /\ UNCHANGED <<listPage, serverRows, loading, formVars, sent, listHistory>>

(* A request fails on its way, or its answer does; the row of a change that*)
(* was made is then not what the page takes it for.                        *)
Changed(r) ==
  CASE ~Answered(r) \/ r.kind = "list" -> {}
    [] Answered(r) /\ r.kind = "create" -> Range(r.answer)
    [] Answered(r) /\ r.kind = "remove" -> {r.id}
Lost(r) ==
  /\ r.ok \/ ~r.served
  /\ requests' = (requests \ {r}) \cup {[r EXCEPT !.served = TRUE, !.ok = FALSE]}
  /\ staleRows' = staleRows \cup Changed(r)
  /\ UNCHANGED <<listPage, serverRows, list, loading, error, formVars, revokingId, sent,
                 doubt, pageEnd>>

ListAnswers(r) ==
  r.served /\ (OnList(r) \/ OnCreated(r) \/ OnRemoved(r))
ListPagesNext ==
  \/ Serve \/ OtherClient \/ Reload \/ ToggleForm \/ Dismiss \/ HandleCreate
  \/ \E id \in 1..MaxRows : HandleRemove(id)
  \/ \E r \in requests : Lost(r) \/ ListAnswers(r)

-----------------------------------------------------------------------------
(* When everything is answered, and the list shown was not read beside a   *)
(* change, the page shows the rows of the server down to where its list    *)
(* was cut, each once and in their order, but for those that another client*)
(* or a change with a lost answer changed since: a change that fails, is   *)
(* refused, or is made while others are under way leaves nothing wrong.    *)
(* The wallets page, which loads after a change, shows none when that load *)
(* fails.                                                                  *)
ListsAgree ==
  (requests = {} /\ ~doubt /\ ~(listPage = "wallets" /\ error)) =>
    /\ Range(list) \ staleRows = {x \in rows : x >= pageEnd} \ staleRows
    /\ \A i, j \in 1..Len(list) : i < j => list[i] > list[j]

ListSpins == loading \/ creating \/ revokingId # 0
=============================================================================
