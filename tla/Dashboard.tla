---------------------------- MODULE Dashboard ----------------------------
(***************************************************************************)
(* The dashboard in one browser window against the server: what the page   *)
(* shows, what its user can do, and the calls under way in between.        *)
(*                                                                         *)
(* Every handler that awaits the server is cut where it awaits.  `calls`   *)
(* holds the continuations: a handler goes on with the values its closure  *)
(* captured, whatever the user, other handlers and the server did since.   *)
(*                                                                         *)
(* Definitions named Faulty... are variants with one plausible mistake;    *)
(* no specification uses them.  They show that a property can fail.        *)
(***************************************************************************)
EXTENDS InstanceList, Sequences

CONSTANTS
    Part,        \* what a refresh asks for at once: "instances" for
                 \* /instance/list, "servers" for /node/list, "audits"
    Call,        \* places for handlers that wait for the server
    Listings,    \* states in which others may leave the server's records
    ServerToken, \* the token of server.yaml, "" when there is none
    Token,       \* what the user may type as a token, or did on an earlier visit
    Filters,     \* filters of the audit log
    NoFilters,   \* the one that keeps every record
    MaxVersion,  \* bound on the changes of the server's records
    MaxInputs    \* bound on what the user does

ASSUME PartsAreLists == {"instances", "servers"} \subseteq Part

ASSUME CallsAreNumbers == Call \subseteq Nat /\ IsFiniteSet(Call)

ASSUME ListingsAreKept == \A l \in Listings : l \in Listing /\ MasterIsCurrent(l)

ASSUME BoundsAreNumbers == MaxVersion \in Nat \ {0} /\ MaxInputs \in Nat

ASSUME NoFiltersIsOne == NoFilters \in Filters

VARIABLES
    history,  \* the server's records, version by version; the last is now
    calls,    \* per place the handler that waits there
    stored,   \* localStorage.redisPilotToken
    token, tab, loading, error, data, filters, expanded,
    modal,    \* detail and backupDetail
    confirm,  \* confirmAction
    pending,  \* pendingAction
    inputs    \* what the user has done so far

page == <<token, tab, loading, error, data, filters, expanded, modal, confirm, pending>>

vars == <<history, calls, stored, page, inputs>>

-----------------------------------------------------------------------------
(* Values. *)

\* The tab of the servers has no handlers either and counts as "dashboard".
Tabs == {"dashboard", "instances", "audit"}

Blank == [p \in Part |-> 0]

NoKey == [action |-> "none", name |-> 0]

Keys == [action : {"stop", "start"}, name : Name] \cup {NoKey}

Closed == [on |-> 0, body |-> "loading", of |-> 0]

Modals == {"detail", "backup"}

ModalState == [on : Name \cup {0}, body : {"loading", "error", "answer"}, of : Name \cup {0}]

\* trim() of a token that was typed with a blank.
Trim(t) == IF t = " token" THEN "token" ELSE t

Tokens == Token \cup {Trim(t) : t \in Token} \cup {""}

\* The header is `Bearer` and the token as it is in the input, blanks included.
Accepts(t) == ServerToken = "" \/ t = ServerToken

\* A handler at an await: what its closure holds (key, token, filters), the
\* version at its start, the answers that are in (got), the result of a POST
\* at the server, the version it changed (effect), and the version the user
\* looked at when the action was chosen (seen).
Idle == [kind |-> "idle", key |-> NoKey, on |-> 0, token |-> "", filters |-> NoFilters,
         asked |-> 0, got |-> Blank, ignored |-> FALSE, result |-> "none",
         effect |-> 0, seen |-> 0]

CallState == [kind    : {"idle", "read", "detail", "backup", "power", "orphan"},
              key     : Keys,
              on      : Name \cup {0},
              token   : Tokens,
              filters : Filters,
              asked   : Nat,
              got     : [Part -> Nat],
              ignored : BOOLEAN,
              result  : {"none", "ok", "refused"},
              effect  : Nat,
              seen    : Nat]

Version == Len(history)

Now == history[Version]

\* The listing on the screen.
Shown == history[data.version["instances"]]

-----------------------------------------------------------------------------
(* The page is loaded. *)

\* The three requests of a refresh, or of the effect that runs at mount.
Reading(tok, fs) == [Idle EXCEPT !.kind = "read", !.token = tok, !.filters = fs,
                                 !.asked = Version]

\* A POST that is on its way outlives the page that sent it.
Survivor(r) ==
    IF r.kind \in {"power", "orphan"} /\ r.result = "none"
    THEN [Idle EXCEPT !.kind = "orphan", !.key = r.key, !.token = r.token]
    ELSE Idle

\* The effect runs once; under StrictMode in development it runs, is cleaned
\* up, which makes it ignore its answers, and runs again.  Places are alike.
Mounted(old, tok) ==
    LET free == {c \in Call : Survivor(old[c]) = Idle}
    IN  {[c \in Call |-> IF c = counts THEN Reading(tok, NoFilters)
                         ELSE IF c \in ignored
                         THEN [Reading(tok, NoFilters) EXCEPT !.ignored = TRUE]
                         ELSE Survivor(old[c])] :
            counts \in {c \in free : \A d \in free : c <= d},
            ignored \in {I \in SUBSET free : \A c, d \in I : c = d}}

NoData == [version |-> Blank, filters |-> NoFilters]

NoConfirm == [key |-> NoKey, seen |-> 0]

Init ==
    /\ history \in {<<l>> : l \in Listings}
    /\ stored \in {Trim(t) : t \in Token}
    /\ calls \in Mounted([c \in Call |-> Idle], stored)
    /\ token = stored /\ tab = "dashboard" /\ loading = TRUE /\ error = FALSE
    /\ data = NoData /\ filters = NoFilters /\ expanded = {}
    /\ modal = [m \in Modals |-> Closed] /\ confirm = NoConfirm /\ pending = NoKey
    /\ inputs = 0

-----------------------------------------------------------------------------
(* The user. *)

Acts == inputs < MaxInputs /\ inputs' = inputs + 1

Busy == {c \in Call : calls[c].kind # "idle"}

\* A handler starts and comes to its first await.
Starts(c, r) ==
    /\ c \in Call \ Busy
    /\ \A d \in Call \ Busy : c <= d
    /\ calls' = [calls EXCEPT ![c] = r]

\* While loading is set a panel stands in place of every tab.
Showing(t) == tab = t /\ ~loading

\* Buttons are in the row of a group, for its primary, and in the rows of its
\* replicas while the group is open.  The search box, which only takes rows
\* away, is left out.
GroupRow(n) == n = Primary(Shown, Title(Shown, n))

ReplicaRow(n) == LET t == Title(Shown, n) IN n \in Replicas(Shown, t) /\ t \in expanded

RowShown(n) ==
    /\ Showing("instances")
    /\ data.version["instances"] # 0
    /\ n \in DOMAIN Shown.items
    /\ GroupRow(n) \/ ReplicaRow(n)

SelectTab(t) ==
    /\ Acts
    /\ t # tab
    /\ tab' = t
    /\ UNCHANGED <<history, calls, stored, token, loading, error, data, filters,
                   expanded, modal, confirm, pending>>

Toggle(t) ==
    /\ Acts
    /\ Showing("instances")
    /\ data.version["instances"] # 0
    /\ t \in Titles(Shown)
    /\ Replicas(Shown, t) # {}
    /\ expanded' = IF t \in expanded THEN expanded \ {t} ELSE expanded \cup {t}
    /\ UNCHANGED <<history, calls, stored, token, tab, loading, error, data, filters,
                   modal, confirm, pending>>

TypeToken(t) ==
    /\ Acts
    /\ t # token
    /\ token' = t
    /\ UNCHANGED <<history, calls, stored, tab, loading, error, data, filters, expanded,
                   modal, confirm, pending>>

EditFilters(fs) ==
    /\ Acts
    /\ Showing("audit")
    /\ fs # filters
    /\ filters' = fs
    /\ UNCHANGED <<history, calls, stored, token, tab, loading, error, data, expanded,
                   modal, confirm, pending>>

\* refresh, from the toolbar or as the filters are applied.
Refresh(c) ==
    /\ Acts
    /\ Starts(c, Reading(token, filters))
    /\ loading' = TRUE
    /\ error' = FALSE
    /\ UNCHANGED <<history, stored, token, tab, data, filters, expanded, modal, confirm, pending>>

\* The token is stored without blanks and used with them.
SaveToken(c) ==
    /\ Acts
    /\ stored' = Trim(token)
    /\ Starts(c, Reading(token, filters))
    /\ loading' = TRUE
    /\ error' = FALSE
    /\ UNCHANGED <<history, token, tab, data, filters, expanded, modal, confirm, pending>>

\* The timer calls the refresh of the render in which the button was pressed,
\* and that one still has the filters that were just taken off.
ResetFilters(c) ==
    /\ Acts
    /\ Showing("audit")
    /\ filters' = NoFilters
    /\ Starts(c, Reading(token, filters))
    /\ loading' = TRUE
    /\ error' = FALSE
    /\ UNCHANGED <<history, stored, token, tab, data, expanded, modal, confirm, pending>>

\* openInstanceDetail and openBackupList.
OpenModal(m, c, n) ==
    /\ Acts
    /\ RowShown(n)
    /\ Starts(c, [Idle EXCEPT !.kind = m, !.on = n, !.token = token])
    /\ modal' = [modal EXCEPT ![m] = [on |-> n, body |-> "loading", of |-> 0]]
    /\ UNCHANGED <<history, stored, token, tab, loading, error, data, filters, expanded,
                   confirm, pending>>

CloseModal(m) ==
    /\ Acts
    /\ modal[m].on # 0
    /\ modal' = [modal EXCEPT ![m] = Closed]
    /\ UNCHANGED <<history, calls, stored, token, tab, loading, error, data, filters, expanded,
                   confirm, pending>>

\* changeInstancePower, unless the button of this very action is waiting.
ChangePower(n, action) ==
    /\ Acts
    /\ RowShown(n)
    /\ action \in Offers(Shown, n)
    /\ pending # [action |-> action, name |-> n]
    /\ confirm' = [key  |-> [action |-> action, name |-> n],
                   seen |-> data.version["instances"]]
    /\ UNCHANGED <<history, calls, stored, token, tab, loading, error, data, filters, expanded,
                   modal, pending>>

\* The backdrop cancels also while the buttons are disabled.
CancelPower ==
    /\ Acts
    /\ confirm.key # NoKey
    /\ confirm' = NoConfirm
    /\ UNCHANGED <<history, calls, stored, token, tab, loading, error, data, filters, expanded,
                   modal, pending>>

\* executeInstancePower up to the POST; there is one pendingAction for all.
ExecutePower(c) ==
    /\ Acts
    /\ confirm.key # NoKey
    /\ pending # confirm.key
    /\ Starts(c, [Idle EXCEPT !.kind = "power", !.key = confirm.key, !.token = token,
                              !.filters = filters, !.seen = confirm.seen])
    /\ pending' = confirm.key
    /\ error' = FALSE
    /\ UNCHANGED <<history, stored, token, tab, loading, data, filters, expanded, modal, confirm>>

\* The browser loads the page again.
Reload ==
    /\ Acts
    /\ UNCHANGED <<history, stored>>
    /\ calls' \in Mounted(calls, stored)
    /\ token' = stored /\ tab' = "dashboard" /\ loading' = TRUE /\ error' = FALSE
    /\ data' = NoData /\ filters' = NoFilters /\ expanded' = {}
    /\ modal' = [m \in Modals |-> Closed] /\ confirm' = NoConfirm /\ pending' = NoKey

-----------------------------------------------------------------------------
(* The server and the network. *)

\* Another client, Sentinel or a reconciliation changes the records.
ServerChanges(l) ==
    /\ Version < MaxVersion
    /\ l # Now
    /\ history' = Append(history, l)
    /\ UNCHANGED <<calls, stored, page, inputs>>

FaultySampled(c) == IF data.version["instances"] = 0 THEN Version
                    ELSE data.version["instances"]

\* What a GET of the call reads when the server serves it.
Sampled(c) == Version

\* One of the three GETs of a read is served.
Answer(c, p) ==
    /\ calls[c].kind = "read"
    /\ calls[c].got[p] = 0
    /\ Accepts(calls[c].token)
    /\ calls' = [calls EXCEPT ![c].got[p] = Sampled(c)]
    /\ UNCHANGED <<history, stored, page, inputs>>

\* The server works on a POST, whether or not its page is still there.
Handled(c, result, effect) ==
    calls' = [calls EXCEPT ![c] =
                 IF @.kind = "orphan" THEN Idle
                 ELSE [@ EXCEPT !.result = result, !.effect = effect]]

ServePower(c) ==
    LET key == calls[c].key
    IN  /\ calls[c].kind \in {"power", "orphan"}
        /\ calls[c].result = "none"
        /\ \/ /\ Accepts(calls[c].token)
              /\ Admits(Now, key.name, key.action)
              /\ Version < MaxVersion
              /\ history' = Append(history, Powered(Now, key.name, key.action))
              /\ Handled(c, "ok", Version + 1)
           \/ /\ Handled(c, "refused", 0)
              /\ UNCHANGED history
        /\ UNCHANGED <<stored, page, inputs>>

-----------------------------------------------------------------------------
(* Handlers go on after an await. *)

\* finally { setPendingAction('') }, whoever set it.
FaultyPendingAfter(c) == pending

PendingAfter(c) == IF calls[c].key = NoKey THEN pending ELSE NoKey

\* finally { if (!ignore) setLoading(false) }
FaultyLoadingAfter(c) == FALSE

LoadingAfter(c) == IF calls[c].ignored THEN loading ELSE FALSE

\* Promise.all.
FaultyComplete(c) == calls[c].got["instances"] # 0

Complete(c) == \A p \in Part : calls[c].got[p] # 0

\* All answers are in: what was shown is replaced as a whole.
Settle(c) ==
    /\ calls[c].kind = "read"
    /\ Complete(c)
    /\ calls' = [calls EXCEPT ![c] = Idle]
    /\ data' = IF calls[c].ignored THEN data
               ELSE [version |-> calls[c].got, filters |-> calls[c].filters]
    /\ loading' = LoadingAfter(c)
    /\ pending' = PendingAfter(c)
    /\ UNCHANGED <<history, stored, token, tab, error, filters, expanded, modal, confirm, inputs>>

\* One request fails, for its token or on the way: the others no longer count.
FaultyReject(c) ==
    /\ calls[c].kind = "read"
    /\ calls' = [calls EXCEPT ![c] = Idle]
    /\ error' = IF calls[c].ignored THEN error ELSE TRUE
    /\ pending' = PendingAfter(c)
    /\ UNCHANGED <<history, stored, token, tab, loading, data, filters, expanded, modal, confirm,
                   inputs>>

Reject(c) ==
    /\ calls[c].kind = "read"
    /\ calls' = [calls EXCEPT ![c] = Idle]
    /\ error' = IF calls[c].ignored THEN error ELSE TRUE
    /\ loading' = LoadingAfter(c)
    /\ pending' = PendingAfter(c)
    /\ UNCHANGED <<history, stored, token, tab, data, filters, expanded, modal, confirm, inputs>>

\* The modal is set anew with the instance of the closure, even if it has been
\* closed or shows another one by now.
FaultyModalShows(m, n, body) == [modal[m] EXCEPT !.body = body, !.of = n]

ModalShows(m, n, body) == [on |-> n, body |-> body, of |-> IF body = "answer" THEN n ELSE 0]

ModalSettles(m, c) ==
    /\ calls[c].kind = m
    /\ \E body \in {"answer", "error"} :
          /\ body = "answer" => Accepts(calls[c].token)
          /\ modal' = [modal EXCEPT ![m] = ModalShows(m, calls[c].on, body)]
    /\ calls' = [calls EXCEPT ![c] = Idle]
    /\ UNCHANGED <<history, stored, token, tab, loading, error, data, filters, expanded, confirm,
                   pending, inputs>>

\* The POST succeeded: whatever dialog is open closes, and the refresh of the
\* same closure follows.
PowerDone(c) ==
    /\ calls[c].kind = "power"
    /\ calls[c].result = "ok"
    /\ confirm' = NoConfirm
    /\ calls' = [calls EXCEPT ![c] = [Reading(@.token, @.filters) EXCEPT
                                          !.key = calls[c].key, !.effect = calls[c].effect]]
    /\ loading' = TRUE
    /\ error' = FALSE
    /\ UNCHANGED <<history, stored, token, tab, data, filters, expanded, modal, pending, inputs>>

\* It was refused, or its answer was lost; then it may still be carried out.
PowerFails(c) ==
    /\ calls[c].kind = "power"
    /\ \E r \in {Idle, Survivor(calls[c])} : calls' = [calls EXCEPT ![c] = r]
    /\ error' = TRUE
    /\ pending' = PendingAfter(c)
    /\ UNCHANGED <<history, stored, token, tab, loading, data, filters, expanded, modal, confirm,
                   inputs>>

-----------------------------------------------------------------------------

User ==
    \/ \E t \in Tabs : SelectTab(t)
    \/ \E t \in Name \cup Group : Toggle(t)
    \/ \E t \in Token : TypeToken(t)
    \/ \E fs \in Filters : EditFilters(fs)
    \/ \E c \in Call : Refresh(c) \/ SaveToken(c) \/ ResetFilters(c) \/ ExecutePower(c)
    \/ \E m \in Modals, c \in Call, n \in Name : OpenModal(m, c, n)
    \/ \E m \in Modals : CloseModal(m)
    \/ \E n \in Name, action \in {"stop", "start"} : ChangePower(n, action)
    \/ CancelPower
    \/ Reload

Next ==
    \/ User
    \/ \E l \in Listings : ServerChanges(l)
    \/ \E c \in Call :
          \/ \E p \in Part : Answer(c, p)
          \/ ServePower(c)
          \/ Settle(c) \/ Reject(c)
          \/ \E m \in Modals : ModalSettles(m, c)
          \/ PowerDone(c) \/ PowerFails(c)

\* The handlers of the three GETs wait for no agent and no lock, so that each
\* is answered or its connection fails.  Nothing else is promised: a POST waits
\* for an agent, and the metrics do too.
Fairness == \A c \in Call : WF_vars(Settle(c) \/ Reject(c))

Spec == Init /\ [][Next]_vars /\ Fairness

-----------------------------------------------------------------------------
(* Properties. *)

\* The records, the waiting handlers and the page are well-formed; no version
\* is shown that the server never had.
TypeOK ==
    /\ history \in Seq(Listing)
    /\ Version \in 1 .. MaxVersion
    /\ calls \in [Call -> CallState]
    /\ stored \in Tokens /\ token \in Tokens
    /\ tab \in Tabs /\ loading \in BOOLEAN /\ error \in BOOLEAN
    /\ data \in [version : [Part -> 0 .. Version], filters : Filters]
    /\ filters \in Filters /\ expanded \subseteq Name \cup Group
    /\ modal \in [Modals -> ModalState]
    /\ confirm \in [key : Keys, seen : 0 .. Version]
    /\ pending \in Keys

\* Once the loading panel goes there is a listing of the server on the screen
\* or an error: an empty page never means that nothing has been asked yet,
\* although any of several handlers can take the panel away, the effect that
\* StrictMode has cleaned up included, and starting an action clears the error.
NeverBlank == ~loading => data.version["instances"] # 0 \/ error

\* Every grouped instance of the listing shown has a row with its buttons.
NobodyIsHidden == data.version["instances"] # 0 => EveryInstanceHasARow(Shown)

\* Badges tell the worst of their groups; no alerts means that no instance, no
\* failover and no node is in trouble, in the two answers they come from; and
\* when every group counts as healthy every instance runs.
BadgesAreTrue ==
    data.version["instances"] # 0 =>
        LET nodes == history[data.version["servers"]].nodes
        IN  /\ BadgeTellsTheWorst(Shown)
            /\ Alerts(Shown, nodes) = 0 =>
                  /\ \A n \in DOMAIN Shown.items : Tone(Shown.items[n].status) # "bad"
                  /\ \A s \in Node : nodes[s] # "unhealthy"
            /\ HealthyGroups(Shown) = Cardinality(Titles(Shown)) =>
                  \A n \in DOMAIN Shown.items : Shown.items[n].status = "running"

\* The page and the server agree on which instances may be stopped: what was
\* confirmed the server would have admitted in the state the user looked at.
\* So a refusal for the role means that the records changed since.
OffersAreAdmitted ==
    /\ \A c \in Call : calls[c].kind = "power" =>
           Admits(history[calls[c].seen], calls[c].key.name, calls[c].key.action)
    /\ confirm.key # NoKey =>
           Admits(history[confirm.seen], confirm.key.name, confirm.key.action)

\* A button that waits, waits for something: the pending action is one that is
\* on its way to the server or whose refresh is.  It is one variable that all
\* actions set and clear.
PendingIsReal ==
    pending # NoKey =>
        \E c \in Call : calls[c].kind \in {"power", "read"} /\ calls[c].key = pending

\* The metrics or backups in a modal are those of the instance it names, and
\* one that is loading has its own request under way, whichever modals were
\* opened and closed before the answers came.
ModalIsItsOwn ==
    \A m \in Modals :
        /\ modal[m].body = "answer" => modal[m].of = modal[m].on
        /\ modal[m].on # 0 /\ modal[m].body = "loading" =>
              \E c \in Call : calls[c].kind = m /\ calls[c].on = modal[m].on

\* When an action of this page has changed the records, the refresh that
\* follows it brings a listing with the change.
ShowsItsOwnWork ==
    [][\A c \in Call : Settle(c) => data'.version["instances"] >= calls[c].effect]_vars

\* The panel that covers the page goes away.
LoadingEnds == []<>~loading

\* The version at the question of a handler, if it reads and is listened to.
Question(r) == IF r.kind = "read" /\ ~r.ignored THEN r.asked ELSE 0

\* The page is a reader of bounded staleness, with every way to ask (mount,
\* toolbar, token, filters, after an action) and to fail.
Reads == INSTANCE StaleReads WITH
             Reader  <- Call,
             version <- Version,
             since   <- [c \in Call |-> Question(calls[c])],
             shown   <- data.version

ReadsAreBounded == Reads!Spec

=============================================================================
