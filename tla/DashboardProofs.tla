------------------------ MODULE DashboardProofs ------------------------
(***************************************************************************)
(* What holds of the dashboard for any number of instances, groups and     *)
(* handlers under way, and any number of changes and inputs: its types and *)
(* its invariants, and that it implements StaleReads.                      *)
(***************************************************************************)
EXTENDS Dashboard, InstanceListProofs

\* What a waiting handler knows of a history h of the server's records: what
\* it asked and was answered lies in it, and what it is to do was admitted.
Sound(r, h) ==
    /\ r.effect <= Len(h)
    /\ r.ignored => r.kind = "read" /\ r.effect = 0
    /\ r.kind = "read" =>
          /\ r.asked \in 1 .. Len(h)
          /\ r.effect <= r.asked
          /\ \A p \in Part : r.got[p] = 0 \/ r.got[p] \in r.asked .. Len(h)
    /\ r.kind = "power" =>
          /\ r.seen \in 1 .. Len(h)
          /\ Admits(h[r.seen], r.key.name, r.key.action)

CallsAreSound == \A c \in Call : Sound(calls[c], history)

\* The server keeps its promise in every version.
RecordsAreKept == \A i \in 1 .. Version : MasterIsCurrent(history[i])

\* Something of each list is shown, or nothing of any.
AllOrNothing == data.version = Blank \/ data.version \in [Part -> 1 .. Version]

\* A dialog is about a listing that was shown.
ConfirmIsSound ==
    confirm.key # NoKey =>
        /\ data.version["instances"] # 0
        /\ confirm.seen \in 1 .. Version
        /\ Admits(history[confirm.seen], confirm.key.name, confirm.key.action)

IInv ==
    /\ TypeOK
    /\ CallsAreSound
    /\ RecordsAreKept
    /\ AllOrNothing
    /\ ConfirmIsSound
    /\ NeverBlank
    /\ PendingIsReal
    /\ ModalIsItsOwn

-----------------------------------------------------------------------------
(* Values. *)

LEMMA TokenTypes ==
    /\ "" \in Tokens
    /\ \A t \in Token : t \in Tokens
    /\ \A t \in Tokens : Trim(t) \in Tokens
BY DEF Tokens, Trim

LEMMA BlankTypes == Blank \in [Part -> Nat] /\ \A p \in Part : Blank[p] = 0
BY DEF Blank

LEMMA IdleTypes ==
    /\ Idle \in CallState
    /\ Idle.kind = "idle" /\ Idle.key = NoKey /\ Idle.result = "none"
    /\ ~Idle.ignored /\ Idle.effect = 0 /\ Idle.seen = 0
BY TokenTypes, BlankTypes, NoFiltersIsOne DEF Idle, CallState, Keys

LEMMA ReadingTypes ==
    ASSUME TypeOK, NEW tok \in Tokens, NEW fs \in Filters
    PROVE  LET r == Reading(tok, fs)
           IN  /\ r \in CallState
               /\ r.kind = "read" /\ r.key = NoKey /\ ~r.ignored
               /\ r.asked = Version /\ r.effect = 0 /\ r.got = Blank
<1>1. Version \in Nat
  BY DEF TypeOK
<1>2. Blank \in [Part -> Nat]
  BY BlankTypes
<1> HIDE DEF Blank, Version
<1> QED
  BY <1>1, <1>2 DEF Reading, Idle, CallState, Keys

\* Records of a call with some fields changed.
LEMMA SurvivorTypes ==
    ASSUME NEW r \in CallState
    PROVE  /\ Survivor(r) \in CallState
           /\ Survivor(r).kind \in {"idle", "orphan"}
           /\ Survivor(r).effect = 0 /\ ~Survivor(r).ignored
<1>1. Blank \in [Part -> Nat]
  BY BlankTypes
<1> HIDE DEF Blank
<1> QED
  BY <1>1, IdleTypes DEF Survivor, Idle, CallState

\* The handlers of a page that was just loaded.
LEMMA MountedTypes ==
    ASSUME TypeOK, NEW old \in [Call -> CallState], NEW tok \in Tokens,
           NEW new \in Mounted(old, tok)
    PROVE  /\ new \in [Call -> CallState]
           /\ \A c \in Call : \/ new[c] = Reading(tok, NoFilters)
                              \/ new[c] = [Reading(tok, NoFilters) EXCEPT !.ignored = TRUE]
                              \/ new[c] = Survivor(old[c])
<1> DEFINE R == Reading(tok, NoFilters)
           I == [R EXCEPT !.ignored = TRUE]
<1>1. PICK counts \in Call, ignored \in SUBSET Call :
          new = [c \in Call |-> IF c = counts THEN R
                                ELSE IF c \in ignored THEN I ELSE Survivor(old[c])]
  BY DEF Mounted
<1>2. R \in CallState
  BY ReadingTypes, NoFiltersIsOne
<1> HIDE DEF R
<1>3. I \in CallState
  BY <1>2 DEF CallState
<1> HIDE DEF I
<1>4. \A c \in Call : Survivor(old[c]) \in CallState
  BY SurvivorTypes
<1>5. \A c \in Call : new[c] = R \/ new[c] = I \/ new[c] = Survivor(old[c])
  BY <1>1
<1>6. new \in [Call -> CallState]
  BY <1>1, <1>2, <1>3, <1>4
<1> QED
  BY <1>5, <1>6 DEF R, I

\* What such a handler knows.
LEMMA MountedIsSound ==
    ASSUME TypeOK, NEW old \in [Call -> CallState], NEW tok \in Tokens,
           NEW new \in Mounted(old, tok)
    PROVE  \A c \in Call : /\ Sound(new[c], history)
                           /\ Question(new[c]) \in {0, Version}
<1> SUFFICES ASSUME NEW c \in Call
             PROVE  Sound(new[c], history) /\ Question(new[c]) \in {0, Version}
  OBVIOUS
<1>1. Version \in Nat \ {0} /\ Version = Len(history)
  BY DEF TypeOK, Version
<1> DEFINE R == Reading(tok, NoFilters)
<1>2. /\ R \in CallState /\ R.kind = "read" /\ ~R.ignored
      /\ R.asked = Version /\ R.effect = 0 /\ \A p \in Part : R.got[p] = 0
  BY ReadingTypes, NoFiltersIsOne, BlankTypes
<1>3. new[c] = R \/ new[c] = [R EXCEPT !.ignored = TRUE] \/ new[c] = Survivor(old[c])
  BY MountedTypes
<1> HIDE DEF R
<1>4. CASE new[c] = R
  BY <1>1, <1>2, <1>4 DEF Sound, Question
<1>5. CASE new[c] = [R EXCEPT !.ignored = TRUE]
  BY <1>1, <1>2, <1>5 DEF Sound, Question, CallState
<1>6. CASE new[c] = Survivor(old[c])
  BY <1>1, <1>6, SurvivorTypes DEF Sound, Question
<1> QED
  BY <1>3, <1>4, <1>5, <1>6

LEMMA CallTypes ==
    ASSUME TypeOK, NEW c \in Call, NEW r \in CallState,
           calls' = [calls EXCEPT ![c] = r]
    PROVE  calls' \in [Call -> CallState]
BY DEF TypeOK

\* A longer history contains the shorter one.
LEMMA HistoryGrows ==
    ASSUME TypeOK, NEW l \in Listing, Version < MaxVersion, history' = Append(history, l)
    PROVE  /\ history' \in Seq(Listing)
           /\ Version' = Version + 1 /\ Version' \in 1 .. MaxVersion
           /\ \A i \in 1 .. Version : history'[i] = history[i]
           /\ history'[Version'] = l
           /\ Len(history) = Version /\ Len(history') = Version'
BY BoundsAreNumbers DEF TypeOK, Version

LEMMA StaysSound ==
    ASSUME TypeOK, NEW l \in Listing, Version < MaxVersion, history' = Append(history, l),
           NEW r \in CallState, Sound(r, history)
    PROVE  Sound(r, history')
<1>1. Version \in Nat
  BY DEF TypeOK
<1> QED
  BY <1>1, HistoryGrows DEF Sound, CallState

-----------------------------------------------------------------------------
(* Types. *)

LEMMA InitTypes ==
    ASSUME Init
    PROVE  TypeOK
<1>1. PICK l \in Listings : history = <<l>>
  BY DEF Init
<1>2. history \in Seq(Listing) /\ Version = 1
  BY <1>1, ListingsAreKept DEF Version
<1>3. Version \in 1 .. MaxVersion
  BY <1>2, BoundsAreNumbers
<1>4. stored \in Tokens
  BY TokenTypes DEF Init
<1>5. calls \in [Call -> CallState]
  <2> DEFINE R == [Reading(stored, NoFilters) EXCEPT !.ignored = TRUE]
             old == [c \in Call |-> Idle]
  <2>1. PICK counts \in Call, ignored \in SUBSET Call :
            calls = [c \in Call |-> IF c = counts THEN Reading(stored, NoFilters)
                                    ELSE IF c \in ignored THEN R ELSE Survivor(old[c])]
    BY DEF Init, Mounted
  <2>2. Reading(stored, NoFilters) \in CallState /\ R \in CallState
    <3>1. Blank \in [Part -> Nat] /\ Version \in Nat
      BY <1>2, BlankTypes
    <3> HIDE DEF Blank, Version
    <3> QED
      BY <1>4, <3>1, NoFiltersIsOne DEF Reading, Idle, CallState, Keys
  <2>3. \A c \in Call : Survivor(old[c]) \in CallState
    BY IdleTypes, SurvivorTypes
  <2> HIDE DEF R, old
  <2> QED
    BY <2>1, <2>2, <2>3
<1>6. data \in [version : [Part -> 0 .. Version], filters : Filters]
  BY <1>2, NoFiltersIsOne DEF Init, NoData, Blank
<1>7. confirm \in [key : Keys, seen : 0 .. Version]
  BY <1>2 DEF Init, NoConfirm, Keys
<1>8. modal \in [Modals -> ModalState]
  BY DEF Init, Closed, ModalState
<1> QED
  BY <1>2, <1>3, <1>4, <1>5, <1>6, <1>7, <1>8, NoFiltersIsOne DEF Init, TypeOK, Tabs, Keys

LEMMA UserKeepsHistory ==
    ASSUME User
    PROVE  history' = history /\ Version' = Version
<1>1. history' = history
  <2>1. ASSUME NEW c \in Call, Refresh(c) \/ SaveToken(c) \/ ResetFilters(c) \/ ExecutePower(c)
        PROVE  history' = history
    BY <2>1 DEF Refresh, SaveToken, ResetFilters, ExecutePower
  <2>2. ASSUME NEW m \in Modals, NEW c \in Call, NEW n \in Name, OpenModal(m, c, n)
        PROVE  history' = history
    BY <2>2 DEF OpenModal
  <2>3. ASSUME NEW n \in Name, NEW action \in {"stop", "start"}, ChangePower(n, action)
        PROVE  history' = history
    BY <2>3 DEF ChangePower
  <2>4. CASE \/ \E t \in Tabs : SelectTab(t)
             \/ \E t \in Name \cup Group : Toggle(t)
             \/ \E t \in Token : TypeToken(t)
             \/ \E fs \in Filters : EditFilters(fs)
             \/ \E m \in Modals : CloseModal(m)
             \/ CancelPower
             \/ Reload
    BY <2>4 DEF SelectTab, Toggle, TypeToken, EditFilters, CloseModal, CancelPower, Reload
  <2> QED
    BY <2>1, <2>2, <2>3, <2>4 DEF User
<1> QED
  BY <1>1 DEF Version

\* What the user does.
LEMMA UserTypes ==
    ASSUME IInv, User
    PROVE  TypeOK'
<1> USE DEF IInv
<1>0. history' = history /\ Version' = Version /\ Version \in Nat
  BY UserKeepsHistory DEF TypeOK
<1>1. ASSUME NEW t \in Tabs, SelectTab(t) PROVE TypeOK'
  BY <1>0, <1>1 DEF SelectTab, TypeOK
<1>2. ASSUME NEW t \in Name \cup Group, Toggle(t) PROVE TypeOK'
  BY <1>0, <1>2 DEF Toggle, TypeOK
<1>3. ASSUME NEW t \in Token, TypeToken(t) PROVE TypeOK'
  BY <1>0, <1>3, TokenTypes DEF TypeToken, TypeOK
<1>4. ASSUME NEW fs \in Filters, EditFilters(fs) PROVE TypeOK'
  BY <1>0, <1>4 DEF EditFilters, TypeOK
<1>5. ASSUME NEW c \in Call, Refresh(c) \/ SaveToken(c) \/ ResetFilters(c) PROVE TypeOK'
  <2>1. Reading(token, filters) \in CallState
    BY ReadingTypes DEF TypeOK
  <2>2. calls' = [calls EXCEPT ![c] = Reading(token, filters)]
    BY <1>5 DEF Refresh, SaveToken, ResetFilters, Starts
  <2>3. calls' \in [Call -> CallState]
    BY <2>1, <2>2, CallTypes
  <2>4. Trim(token) \in Tokens
    BY TokenTypes DEF TypeOK
  <2> QED
    BY <1>0, <1>5, <2>3, <2>4, NoFiltersIsOne DEF Refresh, SaveToken, ResetFilters, TypeOK
<1>6. ASSUME NEW c \in Call, ExecutePower(c) PROVE TypeOK'
  <2> DEFINE r == [Idle EXCEPT !.kind = "power", !.key = confirm.key, !.token = token,
                               !.filters = filters, !.seen = confirm.seen]
  <2>1. confirm.key \in Keys /\ confirm.seen \in Nat
    BY <1>0 DEF TypeOK
  <2>2. r \in CallState
    BY <2>1, IdleTypes DEF TypeOK, CallState
  <2>3. calls' = [calls EXCEPT ![c] = r]
    BY <1>6 DEF ExecutePower, Starts
  <2>4. calls' \in [Call -> CallState]
    BY <2>2, <2>3, CallTypes
  <2> QED
    BY <1>0, <1>6, <2>1, <2>4 DEF ExecutePower, TypeOK
<1>7. ASSUME NEW m \in Modals, NEW c \in Call, NEW n \in Name, OpenModal(m, c, n)
      PROVE  TypeOK'
  <2> DEFINE r == [Idle EXCEPT !.kind = m, !.on = n, !.token = token]
  <2>1. r \in CallState
    BY IdleTypes DEF TypeOK, CallState, Modals
  <2>2. calls' \in [Call -> CallState]
    BY <1>7, <2>1, CallTypes DEF OpenModal, Starts
  <2>3. modal' \in [Modals -> ModalState]
    BY <1>7 DEF OpenModal, TypeOK, ModalState
  <2> QED
    BY <1>0, <1>7, <2>2, <2>3 DEF OpenModal, TypeOK
<1>8. ASSUME NEW m \in Modals, CloseModal(m) PROVE TypeOK'
  <2>1. modal' \in [Modals -> ModalState]
    BY <1>8 DEF CloseModal, TypeOK, ModalState, Closed
  <2> QED
    BY <1>0, <1>8, <2>1 DEF CloseModal, TypeOK
<1>9. ASSUME NEW n \in Name, NEW action \in {"stop", "start"}, ChangePower(n, action)
      PROVE  TypeOK'
  <2>1. confirm' \in [key : Keys, seen : 0 .. Version]
    BY <1>9, PartsAreLists DEF ChangePower, TypeOK, Keys
  <2> QED
    BY <1>0, <1>9, <2>1 DEF ChangePower, TypeOK
<1>10. ASSUME CancelPower PROVE TypeOK'
  <2>1. NoConfirm \in [key : Keys, seen : 0 .. Version]
    BY <1>0 DEF NoConfirm, Keys
  <2> QED
    BY <1>0, <1>10, <2>1 DEF CancelPower, TypeOK
<1>11. ASSUME Reload PROVE TypeOK'
  <2>1. calls' \in [Call -> CallState]
    <3>1. calls' \in Mounted(calls, stored) /\ calls \in [Call -> CallState] /\ stored \in Tokens
      BY <1>11 DEF Reload, TypeOK
    <3> QED
      BY <3>1, MountedTypes
  <2>2. /\ NoConfirm \in [key : Keys, seen : 0 .. Version]
        /\ NoData \in [version : [Part -> 0 .. Version], filters : Filters]
        /\ [m \in Modals |-> Closed] \in [Modals -> ModalState]
    BY <1>0, NoFiltersIsOne DEF NoConfirm, Keys, NoData, Blank, Closed, ModalState
  <2> QED
    BY <1>0, <1>11, <2>1, <2>2, NoFiltersIsOne DEF Reload, TypeOK, Tabs, Keys
<1> QED
  BY <1>1, <1>2, <1>3, <1>4, <1>5, <1>6, <1>7, <1>8, <1>9, <1>10, <1>11 DEF User

\* What the server makes of a power action is recorded as a listing.
LEMMA PoweredNow ==
    ASSUME IInv, NEW n, NEW action, Admits(Now, n, action)
    PROVE  /\ Powered(Now, n, action) \in Listing
           /\ MasterIsCurrent(Powered(Now, n, action))
<1>1. Now \in Listing /\ MasterIsCurrent(Now)
  BY DEF IInv, TypeOK, Now, Version, RecordsAreKept
<1> QED
  BY <1>1, PoweredIsListing

\* The handler behind a POST after the server has worked on it.
Outcome(c, result, effect) ==
    IF calls[c].kind = "orphan" THEN Idle
    ELSE [calls[c] EXCEPT !.result = result, !.effect = effect]

LEMMA OutcomeTypes ==
    ASSUME TypeOK, NEW c \in Call, NEW result \in {"ok", "refused"}, NEW effect \in Nat,
           Handled(c, result, effect)
    PROVE  /\ Outcome(c, result, effect) \in CallState
           /\ calls' = [calls EXCEPT ![c] = Outcome(c, result, effect)]
           /\ calls' \in [Call -> CallState]
<1>1. Outcome(c, result, effect) \in CallState
  BY IdleTypes DEF Outcome, TypeOK, CallState
<1>2. calls' = [calls EXCEPT ![c] = Outcome(c, result, effect)]
  BY DEF Handled, Outcome, TypeOK
<1> QED
  BY <1>1, <1>2, CallTypes

\* What PowerDone leaves waiting: the refresh of the closure, on its behalf.
Follows(c) == [Reading(calls[c].token, calls[c].filters) EXCEPT
                   !.key = calls[c].key, !.effect = calls[c].effect]

LEMMA FollowsTypes ==
    ASSUME TypeOK, NEW c \in Call
    PROVE  /\ Follows(c) \in CallState
           /\ Follows(c).kind = "read" /\ ~Follows(c).ignored
           /\ Follows(c).asked = Version /\ Follows(c).key = calls[c].key
           /\ Follows(c).effect = calls[c].effect
           /\ \A p \in Part : Follows(c).got[p] = 0
<1> DEFINE R == Reading(calls[c].token, calls[c].filters)
<1>1. /\ calls[c].token \in Tokens /\ calls[c].filters \in Filters
      /\ calls[c].key \in Keys /\ calls[c].effect \in Nat
  BY DEF TypeOK, CallState
<1>2. /\ R \in CallState /\ R.kind = "read" /\ ~R.ignored /\ R.asked = Version
      /\ \A p \in Part : R.got[p] = 0
  BY <1>1, ReadingTypes, BlankTypes
<1>3. Follows(c) = [R EXCEPT !.key = calls[c].key, !.effect = calls[c].effect]
  BY DEF Follows
<1> HIDE DEF R
<1> QED
  BY <1>1, <1>2, <1>3 DEF CallState

LEMMA PendingTypes ==
    ASSUME TypeOK, NEW c \in Call
    PROVE  PendingAfter(c) \in Keys
BY DEF PendingAfter, TypeOK, Keys

\* What the server and the network do, and how handlers go on.
LEMMA OtherTypes ==
    ASSUME IInv, Next, ~User
    PROVE  TypeOK'
<1> USE DEF IInv
<1>0. Version \in Nat
  BY DEF TypeOK
<1>1. ASSUME NEW l \in Listings, ServerChanges(l) PROVE TypeOK'
  <2>1. l \in Listing /\ Version < MaxVersion /\ history' = Append(history, l)
    BY <1>1, ListingsAreKept DEF ServerChanges
  <2>2. /\ history' \in Seq(Listing) /\ Version' \in 1 .. MaxVersion
        /\ Version' = Version + 1
    BY <2>1, HistoryGrows
  <2>3. /\ data \in [version : [Part -> 0 .. Version'], filters : Filters]
        /\ confirm \in [key : Keys, seen : 0 .. Version']
    BY <1>0, <2>2 DEF TypeOK
  <2> QED
    BY <1>1, <2>2, <2>3 DEF ServerChanges, TypeOK, page
<1>2. ASSUME NEW c \in Call, NEW p \in Part, Answer(c, p) PROVE TypeOK'
  <2>1. [calls[c] EXCEPT !.got[p] = Version] \in CallState
    <3>1. calls[c] \in CallState /\ calls[c].got \in [Part -> Nat]
      BY DEF TypeOK, CallState
    <3>2. [calls[c].got EXCEPT ![p] = Version] \in [Part -> Nat]
      BY <1>0, <3>1
    <3>3. [calls[c] EXCEPT !.got = [calls[c].got EXCEPT ![p] = Version]] \in CallState
      BY <3>1, <3>2 DEF CallState
    <3> QED
      BY <3>3
  <2>2. calls' = [calls EXCEPT ![c] = [calls[c] EXCEPT !.got[p] = Version]]
    BY <1>2 DEF Answer, Sampled, TypeOK
  <2>3. calls' \in [Call -> CallState]
    BY <2>1, <2>2, CallTypes
  <2>4. Version' = Version
    BY <1>2 DEF Answer, Version
  <2> QED
    BY <1>2, <2>3, <2>4 DEF Answer, TypeOK, page
<1>3. ASSUME NEW c \in Call, ServePower(c) PROVE TypeOK'
  <2> DEFINE key == calls[c].key
  <2>1. CASE /\ Admits(Now, key.name, key.action)
             /\ Version < MaxVersion
             /\ history' = Append(history, Powered(Now, key.name, key.action))
             /\ Handled(c, "ok", Version + 1)
    <3>1. Powered(Now, key.name, key.action) \in Listing
      BY <2>1, PoweredNow
    <3>2. /\ history' \in Seq(Listing) /\ Version' \in 1 .. MaxVersion
          /\ Version' = Version + 1
      BY <2>1, <3>1, HistoryGrows
    <3>3. calls' \in [Call -> CallState]
      <4>1. Version + 1 \in Nat /\ Handled(c, "ok", Version + 1)
        BY <1>0, <2>1
      <4> QED
        BY <4>1, OutcomeTypes
    <3>4. /\ data \in [version : [Part -> 0 .. Version'], filters : Filters]
          /\ confirm \in [key : Keys, seen : 0 .. Version']
      BY <1>0, <3>2 DEF TypeOK
    <3> QED
      BY <1>3, <3>2, <3>3, <3>4 DEF ServePower, TypeOK, page
  <2>2. CASE Handled(c, "refused", 0) /\ history' = history
    <3>1. calls' \in [Call -> CallState]
      <4>1. 0 \in Nat /\ Handled(c, "refused", 0)
        BY <2>2
      <4> QED
        BY <4>1, OutcomeTypes
    <3>2. Version' = Version
      BY <2>2 DEF Version
    <3> QED
      BY <1>3, <2>2, <3>1, <3>2 DEF ServePower, TypeOK, page
  <2> QED
    BY <1>3, <2>1, <2>2 DEF ServePower
<1>4. ASSUME NEW c \in Call, Settle(c) PROVE TypeOK'
  <2>1. calls' \in [Call -> CallState]
    BY <1>4, IdleTypes, CallTypes DEF Settle
  <2>2. data' \in [version : [Part -> 0 .. Version], filters : Filters]
    <3>1. CASE calls[c].ignored
      BY <1>4, <3>1 DEF Settle, TypeOK
    <3>2. CASE ~calls[c].ignored
      <4>1. calls[c].got \in [Part -> Nat] /\ calls[c].filters \in Filters
        BY DEF TypeOK, CallState
      <4>2. \A p \in Part : calls[c].got[p] \in 0 .. Version
        BY <1>0, <1>4, <4>1 DEF Settle, CallsAreSound, Sound, Version
      <4>3. calls[c].got \in [Part -> 0 .. Version]
        BY <4>1, <4>2
      <4> QED
        BY <1>4, <3>2, <4>1, <4>3 DEF Settle
    <3> QED
      BY <3>1, <3>2
  <2>3. Version' = Version
    BY <1>4 DEF Settle, Version
  <2>4. loading' \in BOOLEAN /\ pending' \in Keys
    BY <1>4, PendingTypes DEF Settle, LoadingAfter, TypeOK
  <2> QED
    BY <1>4, <2>1, <2>2, <2>3, <2>4 DEF Settle, TypeOK
<1>5. ASSUME NEW c \in Call, Reject(c) PROVE TypeOK'
  <2>1. calls' \in [Call -> CallState]
    BY <1>5, IdleTypes, CallTypes DEF Reject
  <2>2. Version' = Version
    BY <1>5 DEF Reject, Version
  <2>3. loading' \in BOOLEAN /\ error' \in BOOLEAN /\ pending' \in Keys
    BY <1>5, PendingTypes DEF Reject, LoadingAfter, TypeOK
  <2> QED
    BY <1>5, <2>1, <2>2, <2>3 DEF Reject, TypeOK
<1>6. ASSUME NEW c \in Call, NEW m \in Modals, ModalSettles(m, c) PROVE TypeOK'
  <2>1. calls' \in [Call -> CallState]
    BY <1>6, IdleTypes, CallTypes DEF ModalSettles
  <2>2. Version' = Version
    BY <1>6 DEF ModalSettles, Version
  <2>3. modal' \in [Modals -> ModalState]
    <3>1. PICK body \in {"answer", "error"} :
              modal' = [modal EXCEPT ![m] = ModalShows(m, calls[c].on, body)]
      BY <1>6 DEF ModalSettles
    <3>2. ModalShows(m, calls[c].on, body) \in ModalState
      BY DEF ModalShows, ModalState, TypeOK, CallState
    <3> QED
      BY <3>1, <3>2 DEF TypeOK
  <2> QED
    BY <1>6, <2>1, <2>2, <2>3 DEF ModalSettles, TypeOK
<1>7. ASSUME NEW c \in Call, PowerDone(c) PROVE TypeOK'
  <2>1. calls' = [calls EXCEPT ![c] = Follows(c)]
    BY <1>7 DEF PowerDone, Follows, TypeOK
  <2>2. calls' \in [Call -> CallState]
    BY <2>1, FollowsTypes, CallTypes
  <2>3. Version' = Version
    BY <1>7 DEF PowerDone, Version
  <2>4. NoConfirm \in [key : Keys, seen : 0 .. Version]
    BY <1>0 DEF NoConfirm, Keys
  <2> QED
    BY <1>7, <2>2, <2>3, <2>4 DEF PowerDone, TypeOK
<1>8. ASSUME NEW c \in Call, PowerFails(c) PROVE TypeOK'
  <2>1. PICK r \in {Idle, Survivor(calls[c])} : calls' = [calls EXCEPT ![c] = r]
    BY <1>8 DEF PowerFails
  <2>2. r \in CallState
    BY IdleTypes, SurvivorTypes DEF TypeOK
  <2>3. calls' \in [Call -> CallState]
    BY <2>1, <2>2, CallTypes
  <2>4. Version' = Version
    BY <1>8 DEF PowerFails, Version
  <2> QED
    BY <1>8, <2>3, <2>4, PendingTypes DEF PowerFails, TypeOK
<1> QED
  BY <1>1, <1>2, <1>3, <1>4, <1>5, <1>6, <1>7, <1>8 DEF Next

-----------------------------------------------------------------------------
(* What the handlers know. *)

\* Records change only by a listing that keeps the server's promise.
LEMMA HistoryStep ==
    ASSUME IInv, Next
    PROVE  \/ history' = history
           \/ \E l \in Listing : /\ MasterIsCurrent(l) /\ Version < MaxVersion
                                 /\ history' = Append(history, l)
<1>1. CASE User
  BY <1>1, UserKeepsHistory
<1>2. ASSUME NEW l \in Listings, ServerChanges(l)
      PROVE  l \in Listing /\ MasterIsCurrent(l) /\ Version < MaxVersion
             /\ history' = Append(history, l)
  BY <1>2, ListingsAreKept DEF ServerChanges
<1>3. ASSUME NEW c \in Call, ServePower(c)
      PROVE  \/ history' = history
             \/ \E l \in Listing : /\ MasterIsCurrent(l) /\ Version < MaxVersion
                                   /\ history' = Append(history, l)
  BY <1>3, PoweredNow DEF ServePower
<1>4. ASSUME NEW c \in Call,
             \/ \E p \in Part : Answer(c, p)
             \/ Settle(c) \/ Reject(c)
             \/ \E m \in Modals : ModalSettles(m, c)
             \/ PowerDone(c) \/ PowerFails(c)
      PROVE  history' = history
  BY <1>4 DEF Answer, Settle, Reject, ModalSettles, PowerDone, PowerFails
<1> QED
  BY <1>1, <1>2, <1>3, <1>4 DEF Next

LEMMA RecordsStayKept ==
    ASSUME IInv, Next
    PROVE  RecordsAreKept'
<1>1. CASE history' = history
  BY <1>1 DEF IInv, RecordsAreKept, Version
<1>2. ASSUME NEW l \in Listing, MasterIsCurrent(l), Version < MaxVersion,
             history' = Append(history, l)
      PROVE  RecordsAreKept'
  <2>1. /\ Version' = Version + 1 /\ Version \in Nat
        /\ \A i \in 1 .. Version : history'[i] = history[i]
        /\ history'[Version'] = l
    BY <1>2, HistoryGrows DEF IInv, TypeOK
  <2>2. ASSUME NEW i \in 1 .. Version' PROVE MasterIsCurrent(history'[i])
    <3>1. i \in 1 .. Version \/ i = Version'
      BY <2>1
    <3> QED
      BY <1>2, <2>1, <3>1 DEF IInv, RecordsAreKept
  <2> QED
    BY <2>2 DEF RecordsAreKept
<1> QED
  BY <1>1, <1>2, HistoryStep

\* One handler begins, goes on or ends, and the records stay.
LEMMA OneCallSound ==
    ASSUME IInv, NEW c \in Call, NEW r \in CallState, Sound(r, history),
           calls' = [calls EXCEPT ![c] = r], history' = history
    PROVE  CallsAreSound'
<1>1. \A d \in Call : calls'[d] = IF d = c THEN r ELSE calls[d]
  BY DEF IInv, TypeOK
<1>2. \A d \in Call : Sound(calls'[d], history)
  BY <1>1 DEF IInv, CallsAreSound
<1>3. \A d \in Call : Sound(calls'[d], history')
  BY <1>2
<1> QED
  BY <1>3 DEF CallsAreSound

LEMMA IdleIsSound ==
    ASSUME TypeOK
    PROVE  Sound(Idle, history)
<1>1. Len(history) \in Nat
  BY DEF TypeOK, Version
<1> QED
  BY <1>1, IdleTypes DEF Sound

LEMMA UserSound ==
    ASSUME IInv, User
    PROVE  CallsAreSound'
<1>0. /\ TypeOK /\ history' = history /\ Len(history) = Version /\ Version \in Nat \ {0}
  BY UserKeepsHistory DEF IInv, TypeOK, Version
<1>1. CASE calls' = calls
  <2>1. \A c \in Call : Sound(calls'[c], history')
    BY <1>0, <1>1 DEF IInv, CallsAreSound
  <2> QED
    BY <2>1 DEF CallsAreSound
<1>2. ASSUME NEW c \in Call, Refresh(c) \/ SaveToken(c) \/ ResetFilters(c)
      PROVE  CallsAreSound'
  <2> DEFINE R == Reading(token, filters)
  <2>1. calls' = [calls EXCEPT ![c] = R]
    BY <1>2 DEF Refresh, SaveToken, ResetFilters, Starts
  <2>2. /\ R \in CallState /\ R.kind = "read" /\ ~R.ignored
        /\ R.asked = Version /\ R.effect = 0 /\ \A p \in Part : R.got[p] = 0
    BY <1>0, ReadingTypes, BlankTypes DEF TypeOK
  <2> HIDE DEF R
  <2>3. Sound(R, history)
    BY <1>0, <2>2 DEF Sound
  <2> QED
    BY <1>0, <2>1, <2>2, <2>3, OneCallSound
<1>3. ASSUME NEW c \in Call, ExecutePower(c) PROVE CallsAreSound'
  <2> DEFINE r == [Idle EXCEPT !.kind = "power", !.key = confirm.key, !.token = token,
                               !.filters = filters, !.seen = confirm.seen]
  <2>1. calls' = [calls EXCEPT ![c] = r] /\ confirm.key # NoKey
    BY <1>3 DEF ExecutePower, Starts
  <2>2. /\ confirm.seen \in 1 .. Version /\ confirm.key \in Keys
        /\ Admits(history[confirm.seen], confirm.key.name, confirm.key.action)
    BY <2>1 DEF IInv, ConfirmIsSound, TypeOK
  <2>3. /\ r \in CallState /\ r.kind = "power" /\ r.seen = confirm.seen
        /\ r.key = confirm.key /\ ~r.ignored /\ r.effect = 0
    <3>1. confirm.seen \in Nat /\ token \in Tokens /\ filters \in Filters
      BY <1>0, <2>2 DEF TypeOK
    <3>2. r \in CallState
      BY <2>2, <3>1, IdleTypes DEF CallState
    <3> QED
      BY <3>2, IdleTypes DEF CallState
  <2> HIDE DEF r
  <2>4. Sound(r, history)
    BY <1>0, <2>2, <2>3 DEF Sound
  <2> QED
    BY <1>0, <2>1, <2>3, <2>4, OneCallSound
<1>4. ASSUME NEW m \in Modals, NEW c \in Call, NEW n \in Name, OpenModal(m, c, n)
      PROVE  CallsAreSound'
  <2> DEFINE r == [Idle EXCEPT !.kind = m, !.on = n, !.token = token]
  <2>1. calls' = [calls EXCEPT ![c] = r]
    BY <1>4 DEF OpenModal, Starts
  <2>2. /\ r \in CallState /\ r.kind \notin {"read", "power"}
        /\ ~r.ignored /\ r.effect = 0
    BY <1>0, IdleTypes DEF TypeOK, CallState, Modals
  <2> HIDE DEF r
  <2>3. Sound(r, history)
    BY <1>0, <2>2 DEF Sound
  <2> QED
    BY <1>0, <2>1, <2>2, <2>3, OneCallSound
<1>5. CASE Reload
  <2>1. /\ calls' \in Mounted(calls, stored) /\ calls \in [Call -> CallState]
        /\ stored \in Tokens
    BY <1>5 DEF Reload, IInv, TypeOK
  <2>2. \A c \in Call : Sound(calls'[c], history)
    BY <1>0, <2>1, MountedIsSound
  <2>3. \A c \in Call : Sound(calls'[c], history')
    BY <1>0, <2>2
  <2> QED
    BY <2>3 DEF CallsAreSound
<1>6. ASSUME \/ \E t \in Tabs : SelectTab(t)
             \/ \E t \in Name \cup Group : Toggle(t)
             \/ \E t \in Token : TypeToken(t)
             \/ \E fs \in Filters : EditFilters(fs)
             \/ \E m \in Modals : CloseModal(m)
             \/ \E n \in Name, action \in {"stop", "start"} : ChangePower(n, action)
             \/ CancelPower
      PROVE  calls' = calls
  BY <1>6 DEF SelectTab, Toggle, TypeToken, EditFilters, CloseModal, ChangePower, CancelPower
<1> QED
  BY <1>1, <1>2, <1>3, <1>4, <1>5, <1>6 DEF User

\* Whoever changes the records: what is known stays true of the longer history.
LEMMA ChangeSound ==
    ASSUME IInv, NEW l \in Listing, Version < MaxVersion, history' = Append(history, l),
           calls' = calls
    PROVE  CallsAreSound'
<1>1. \A c \in Call : calls[c] \in CallState /\ Sound(calls[c], history)
  BY DEF IInv, TypeOK, CallsAreSound
<1>2. \A c \in Call : Sound(calls[c], history')
  BY <1>1, StaysSound DEF IInv
<1>3. \A c \in Call : Sound(calls'[c], history')
  BY <1>2
<1> QED
  BY <1>3 DEF CallsAreSound

LEMMA OtherSound ==
    ASSUME IInv, Next, ~User
    PROVE  CallsAreSound'
<1>0. /\ TypeOK /\ Len(history) = Version /\ Version \in Nat \ {0}
  BY DEF IInv, TypeOK, Version
<1>1. ASSUME NEW l \in Listings, ServerChanges(l) PROVE CallsAreSound'
  BY <1>1, ChangeSound, ListingsAreKept DEF ServerChanges
<1>2. ASSUME NEW c \in Call, NEW p \in Part, Answer(c, p) PROVE CallsAreSound'
  <2> DEFINE r == [calls[c] EXCEPT !.got = [calls[c].got EXCEPT ![p] = Version]]
  <2>1. calls' = [calls EXCEPT ![c] = r] /\ history' = history
    BY <1>0, <1>2 DEF Answer, Sampled, TypeOK
  <2>2. calls[c] \in CallState /\ calls[c].got \in [Part -> Nat] /\ calls[c].kind = "read"
    BY <1>0, <1>2 DEF Answer, TypeOK, CallState
  <2>3. [calls[c].got EXCEPT ![p] = Version] \in [Part -> Nat]
    BY <1>0, <2>2
  <2>4. /\ r \in CallState /\ r.kind = "read" /\ r.effect = calls[c].effect
        /\ r.ignored = calls[c].ignored /\ r.asked = calls[c].asked
        /\ \A q \in Part : r.got[q] = IF q = p THEN Version ELSE calls[c].got[q]
    BY <1>0, <2>2, <2>3 DEF CallState
  <2> HIDE DEF r
  <2>5. Sound(calls[c], history)
    BY DEF IInv, CallsAreSound
  <2>6. Sound(r, history)
    BY <1>0, <2>2, <2>4, <2>5 DEF Sound
  <2> QED
    BY <2>1, <2>4, <2>6, OneCallSound
<1>3. ASSUME NEW c \in Call, ServePower(c) PROVE CallsAreSound'
  <2> DEFINE key == calls[c].key
  <2>1. calls[c] \in CallState /\ Sound(calls[c], history)
    BY DEF IInv, TypeOK, CallsAreSound
  <2>2. CASE /\ Admits(Now, key.name, key.action)
             /\ Version < MaxVersion
             /\ history' = Append(history, Powered(Now, key.name, key.action))
             /\ Handled(c, "ok", Version + 1)
    <3> DEFINE r == Outcome(c, "ok", Version + 1)
               l == Powered(Now, key.name, key.action)
    <3>1. l \in Listing
      BY <2>2, PoweredNow
    <3>2. Version + 1 \in Nat /\ Handled(c, "ok", Version + 1)
      BY <1>0, <2>2
    <3>3. r \in CallState /\ calls' = [calls EXCEPT ![c] = r]
      BY <1>0, <3>2, OutcomeTypes
    <3>4. Len(history') = Version + 1
      BY <1>0, <2>2, <3>1, HistoryGrows
    <3>5. Sound(calls[c], history') /\ Sound(Idle, history')
      BY <1>0, <2>1, <2>2, <3>1, IdleTypes, IdleIsSound, StaysSound
    <3>6. \/ r = Idle
          \/ /\ r.effect = Version + 1 /\ r.kind = calls[c].kind
             /\ r.ignored = calls[c].ignored /\ r.seen = calls[c].seen
             /\ r.key = calls[c].key
      BY <2>1 DEF Outcome, CallState
    <3> HIDE DEF r, l
    <3>7. Sound(r, history')
      BY <1>0, <1>3, <3>4, <3>5, <3>6 DEF Sound, ServePower
    <3>8. \A d \in Call : Sound(calls'[d], history')
      BY <1>0, <2>2, <3>1, <3>3, <3>7, StaysSound DEF IInv, TypeOK, CallsAreSound, l
    <3> QED
      BY <3>8 DEF CallsAreSound
  <2>3. CASE Handled(c, "refused", 0) /\ history' = history
    <3> DEFINE r == Outcome(c, "refused", 0)
    <3>1. r \in CallState /\ calls' = [calls EXCEPT ![c] = r]
      BY <1>0, <2>3, OutcomeTypes
    <3>2. \/ r = Idle
          \/ /\ r.effect = 0 /\ r.kind = calls[c].kind
             /\ r.ignored = calls[c].ignored /\ r.seen = calls[c].seen
             /\ r.key = calls[c].key
      BY <2>1 DEF Outcome, CallState
    <3> HIDE DEF r
    <3>3. Sound(r, history)
      BY <1>0, <1>3, <2>1, <3>2, IdleIsSound DEF Sound, ServePower
    <3> QED
      BY <2>3, <3>1, <3>3, OneCallSound
  <2> QED
    BY <1>3, <2>2, <2>3 DEF ServePower
<1>4. ASSUME NEW c \in Call, Settle(c) \/ Reject(c) \/ \E m \in Modals : ModalSettles(m, c)
      PROVE  CallsAreSound'
  <2>1. calls' = [calls EXCEPT ![c] = Idle] /\ history' = history
    BY <1>4 DEF Settle, Reject, ModalSettles
  <2> QED
    BY <1>0, <2>1, IdleTypes, IdleIsSound, OneCallSound
<1>5. ASSUME NEW c \in Call, PowerDone(c) PROVE CallsAreSound'
  <2>1. calls' = [calls EXCEPT ![c] = Follows(c)] /\ history' = history
    BY <1>0, <1>5 DEF PowerDone, Follows, TypeOK
  <2>2. calls[c] \in CallState /\ Sound(calls[c], history)
    BY DEF IInv, TypeOK, CallsAreSound
  <2>3. Sound(Follows(c), history)
    BY <1>0, <2>2, FollowsTypes DEF Sound, CallState
  <2> QED
    BY <1>0, <2>1, <2>3, FollowsTypes, OneCallSound
<1>6. ASSUME NEW c \in Call, PowerFails(c) PROVE CallsAreSound'
  <2>1. PICK r \in {Idle, Survivor(calls[c])} :
            calls' = [calls EXCEPT ![c] = r] /\ history' = history
    BY <1>6 DEF PowerFails
  <2>2. r \in CallState /\ r.kind \in {"idle", "orphan"} /\ r.effect = 0 /\ ~r.ignored
    BY <1>0, IdleTypes, SurvivorTypes DEF TypeOK
  <2>3. Sound(r, history)
    BY <1>0, <2>2 DEF Sound
  <2> QED
    BY <2>1, <2>2, <2>3, OneCallSound
<1> QED
  BY <1>1, <1>2, <1>3, <1>4, <1>5, <1>6 DEF Next

-----------------------------------------------------------------------------
(* What the page shows. *)

LEMMA VersionsStay ==
    ASSUME IInv, Next
    PROVE  /\ Version \in Nat \ {0} /\ Version' \in Nat /\ Version <= Version'
           /\ \A i \in 1 .. Version : history'[i] = history[i]
<1>1. CASE history' = history
  BY <1>1 DEF IInv, TypeOK, Version
<1>2. ASSUME NEW l \in Listing, Version < MaxVersion, history' = Append(history, l)
      PROVE  /\ Version \in Nat \ {0} /\ Version' \in Nat /\ Version <= Version'
             /\ \A i \in 1 .. Version : history'[i] = history[i]
  BY <1>2, HistoryGrows DEF IInv, TypeOK
<1> QED
  BY <1>1, <1>2, HistoryStep

\* A handler whose three answers are in and count.
LEMMA CompleteAnswers ==
    ASSUME IInv, NEW c \in Call, Settle(c)
    PROVE  /\ calls[c].got \in [Part -> calls[c].asked .. Version]
           /\ calls[c].asked \in 1 .. Version
           /\ calls[c].got \in [Part -> 1 .. Version]
           /\ calls[c].effect <= calls[c].asked
           /\ history' = history /\ Version' = Version
<1>1. calls[c].got \in [Part -> Nat] /\ Version \in Nat /\ calls[c].effect \in Nat
  BY DEF IInv, TypeOK, CallState
<1>2. /\ calls[c].asked \in 1 .. Version /\ calls[c].effect <= calls[c].asked
      /\ \A p \in Part : calls[c].got[p] \in calls[c].asked .. Version
  BY DEF Settle, Complete, IInv, CallsAreSound, Sound, Version
<1>3. /\ calls[c].got \in [Part -> calls[c].asked .. Version]
      /\ \A p \in Part : calls[c].got[p] \in 1 .. Version
  BY <1>1, <1>2
<1>4. calls[c].got \in [Part -> 1 .. Version]
  BY <1>1, <1>3
<1>5. history' = history /\ Version' = Version
  BY DEF Settle, Version
<1> QED
  BY <1>2, <1>3, <1>4, <1>5

LEMMA DataStep ==
    ASSUME IInv, Next
    PROVE  \/ data' = data
           \/ Reload
           \/ \E c \in Call : Settle(c) /\ data'.version = calls[c].got
<1>1. CASE User
  <2>1. ASSUME ~Reload PROVE data' = data
    BY <1>1, <2>1 DEF User, SelectTab, Toggle, TypeToken, EditFilters, Refresh, SaveToken,
                      ResetFilters, OpenModal, CloseModal, ChangePower, CancelPower, ExecutePower
  <2> QED
    BY <2>1
<1>2. ASSUME NEW c \in Call, Settle(c)
      PROVE  data' = data \/ data'.version = calls[c].got
  BY <1>2 DEF Settle
<1>3. ASSUME NEW l \in Listings, ServerChanges(l) PROVE data' = data
  BY <1>3 DEF ServerChanges, page
<1>4. ASSUME NEW c \in Call,
             \/ \E p \in Part : Answer(c, p)
             \/ ServePower(c)
             \/ Reject(c)
             \/ \E m \in Modals : ModalSettles(m, c)
             \/ PowerDone(c) \/ PowerFails(c)
      PROVE  data' = data
  BY <1>4 DEF Answer, ServePower, Reject, ModalSettles, PowerDone, PowerFails, page
<1> QED
  BY <1>1, <1>2, <1>3, <1>4 DEF Next

LEMMA NothingMixed ==
    ASSUME IInv, Next
    PROVE  AllOrNothing'
<1>1. CASE data' = data
  <2>1. CASE data.version = Blank
    BY <1>1, <2>1 DEF AllOrNothing, Blank
  <2>2. CASE data.version \in [Part -> 1 .. Version]
    <3>1. data.version \in [Part -> 1 .. Version']
      BY <2>2, VersionsStay
    <3> QED
      BY <1>1, <3>1 DEF AllOrNothing
  <2> QED
    BY <2>1, <2>2 DEF IInv, AllOrNothing
<1>2. CASE Reload
  BY <1>2 DEF Reload, NoData, AllOrNothing, Blank
<1>3. ASSUME NEW c \in Call, Settle(c), data'.version = calls[c].got
      PROVE  AllOrNothing'
  BY <1>3, CompleteAnswers DEF AllOrNothing
<1> QED
  BY <1>1, <1>2, <1>3, DataStep

\* Once a listing is shown, one is shown until the page is loaded again.
LEMMA ListingStays ==
    ASSUME IInv, Next, ~Reload, data.version["instances"] # 0
    PROVE  data'.version["instances"] # 0
BY DataStep, CompleteAnswers, PartsAreLists

LEMMA ConfirmStep ==
    ASSUME IInv, Next
    PROVE  \/ confirm' = confirm
           \/ confirm' = NoConfirm
           \/ \E n \in Name, action \in {"stop", "start"} : ChangePower(n, action)
<1>1. CASE User
  BY <1>1 DEF User, SelectTab, Toggle, TypeToken, EditFilters, Refresh, SaveToken,
              ResetFilters, OpenModal, CloseModal, CancelPower, ExecutePower, Reload
<1>2. ASSUME NEW l \in Listings, ServerChanges(l) PROVE confirm' = confirm
  BY <1>2 DEF ServerChanges, page
<1>3. ASSUME NEW c \in Call,
             \/ \E p \in Part : Answer(c, p)
             \/ ServePower(c)
             \/ Settle(c) \/ Reject(c)
             \/ \E m \in Modals : ModalSettles(m, c)
             \/ PowerDone(c) \/ PowerFails(c)
      PROVE  confirm' = confirm \/ confirm' = NoConfirm
  BY <1>3 DEF Answer, ServePower, Settle, Reject, ModalSettles, PowerDone, PowerFails, page
<1> QED
  BY <1>1, <1>2, <1>3 DEF Next

LEMMA ConfirmStaysSound ==
    ASSUME IInv, Next
    PROVE  ConfirmIsSound'
<1> SUFFICES ASSUME confirm'.key # NoKey
             PROVE  /\ data'.version["instances"] # 0
                    /\ confirm'.seen \in 1 .. Version'
                    /\ Admits(history'[confirm'.seen], confirm'.key.name, confirm'.key.action)
  BY DEF ConfirmIsSound
<1>1. CASE confirm' = confirm
  <2>1. /\ data.version["instances"] # 0 /\ confirm.seen \in 1 .. Version
        /\ Admits(history[confirm.seen], confirm.key.name, confirm.key.action)
    BY <1>1 DEF IInv, ConfirmIsSound
  <2>2. ~Reload
    BY DEF Reload, NoConfirm
  <2> QED
    BY <1>1, <2>1, <2>2, ListingStays, VersionsStay
<1>2. CASE confirm' = NoConfirm
  BY <1>2 DEF NoConfirm
<1>3. ASSUME NEW n \in Name, NEW action \in {"stop", "start"}, ChangePower(n, action)
      PROVE  /\ data'.version["instances"] # 0
             /\ confirm'.seen \in 1 .. Version'
             /\ Admits(history'[confirm'.seen], confirm'.key.name, confirm'.key.action)
  <2>1. /\ data.version["instances"] # 0 /\ n \in DOMAIN Shown.items
        /\ action \in Offers(Shown, n)
        /\ data' = data /\ history' = history
        /\ confirm' = [key |-> [action |-> action, name |-> n],
                       seen |-> data.version["instances"]]
    BY <1>3 DEF ChangePower, RowShown
  <2>2. data.version["instances"] \in 1 .. Version
    BY <2>1, PartsAreLists DEF IInv, TypeOK
  <2>3. Shown \in Listing
    BY <2>2 DEF Shown, IInv, TypeOK, Version
  <2>4. Admits(Shown, n, action)
    BY <2>1, <2>3, OffersAdmitted
  <2>5. Version' = Version
    BY <2>1 DEF Version
  <2> QED
    BY <2>1, <2>2, <2>4, <2>5 DEF Shown
<1> QED
  BY <1>1, <1>2, <1>3, ConfirmStep

LEMMA StaysUnblank ==
    ASSUME IInv, Next
    PROVE  NeverBlank'
<1> SUFFICES ASSUME ~loading'
             PROVE  data'.version["instances"] # 0 \/ error'
  BY DEF NeverBlank
<1>1. CASE loading' = loading /\ error' = error /\ ~Reload
  BY <1>1, ListingStays DEF IInv, NeverBlank
<1>2. ASSUME NEW c \in Call, ExecutePower(c)
      PROVE  data'.version["instances"] # 0
  BY <1>2 DEF ExecutePower, IInv, ConfirmIsSound
<1>3. ASSUME NEW c \in Call, Settle(c)
      PROVE  data'.version["instances"] # 0 \/ error'
  <2>1. CASE calls[c].ignored
    BY <1>3, <2>1 DEF Settle, LoadingAfter, IInv, NeverBlank
  <2>2. CASE ~calls[c].ignored
    <3>1. data'.version = calls[c].got
      BY <1>3, <2>2 DEF Settle
    <3> QED
      BY <1>3, <3>1, CompleteAnswers, PartsAreLists
  <2> QED
    BY <2>1, <2>2
<1>4. ASSUME NEW c \in Call, Reject(c)
      PROVE  data'.version["instances"] # 0 \/ error'
  BY <1>4 DEF Reject, LoadingAfter, IInv, NeverBlank
<1>5. ASSUME User, ~ \E c \in Call : ExecutePower(c)
      PROVE  loading' = loading /\ error' = error /\ ~Reload
  BY <1>5 DEF User, SelectTab, Toggle, TypeToken, EditFilters, Refresh, SaveToken,
              ResetFilters, OpenModal, CloseModal, ChangePower, CancelPower, Reload
<1>6. CASE User
  BY <1>1, <1>2, <1>5, <1>6
<1>7. ASSUME NEW l \in Listings, ServerChanges(l)
      PROVE  data'.version["instances"] # 0 \/ error'
  BY <1>7 DEF ServerChanges, page, IInv, NeverBlank
<1>8. ASSUME NEW c \in Call,
             \/ \E p \in Part : Answer(c, p)
             \/ ServePower(c)
             \/ \E m \in Modals : ModalSettles(m, c)
             \/ PowerDone(c) \/ PowerFails(c)
      PROVE  data'.version["instances"] # 0 \/ error'
  BY <1>8 DEF Answer, ServePower, ModalSettles, PowerDone, PowerFails, page, IInv, NeverBlank
<1> QED
  BY <1>3, <1>4, <1>6, <1>7, <1>8 DEF Next

-----------------------------------------------------------------------------
(* Handlers and what waits for them. *)

\* A handler that begins takes a place nobody waits at.
LEMMA OthersStay ==
    ASSUME TypeOK, NEW c \in Call, NEW r, calls' = [calls EXCEPT ![c] = r]
    PROVE  /\ calls'[c] = r
           /\ \A d \in Call : d # c => calls'[d] = calls[d]
BY DEF TypeOK

LEMMA BegunAtIdle ==
    ASSUME TypeOK, NEW c \in Call, NEW r, Starts(c, r)
    PROVE  /\ calls[c].kind = "idle"
           /\ calls'[c] = r
           /\ \A d \in Call : calls[d].kind # "idle" => calls'[d] = calls[d]
BY OthersStay DEF Starts, Busy

LEMMA PendingStaysReal ==
    ASSUME IInv, Next
    PROVE  PendingIsReal'
<1> SUFFICES ASSUME pending' # NoKey
             PROVE  \E c \in Call : /\ calls'[c].kind \in {"power", "read"}
                                   /\ calls'[c].key = pending'
  BY DEF PendingIsReal
<1> DEFINE Waits(d) == calls[d].kind \in {"power", "read"} /\ calls[d].key = pending
           Goal == \E c \in Call : /\ calls'[c].kind \in {"power", "read"}
                                  /\ calls'[c].key = pending'
<1>0. TypeOK /\ (pending # NoKey => \E d \in Call : Waits(d))
  BY DEF IInv, PendingIsReal
<1>1. CASE calls' = calls /\ pending' = pending
  BY <1>0, <1>1
<1>2. ASSUME NEW c \in Call,
             \/ Refresh(c) \/ SaveToken(c) \/ ResetFilters(c)
             \/ \E m \in Modals, n \in Name : OpenModal(m, c, n)
      PROVE  Goal
  <2>1. PICK r : Starts(c, r) /\ pending' = pending
    BY <1>2 DEF Refresh, SaveToken, ResetFilters, OpenModal
  <2>2. PICK d \in Call : Waits(d)
    BY <1>0, <2>1
  <2>3. calls'[d] = calls[d]
    BY <1>0, <2>1, <2>2, BegunAtIdle
  <2> QED
    BY <2>1, <2>2, <2>3
<1>3. ASSUME NEW c \in Call, ExecutePower(c) PROVE Goal
  <2> DEFINE r == [Idle EXCEPT !.kind = "power", !.key = confirm.key, !.token = token,
                               !.filters = filters, !.seen = confirm.seen]
  <2>1. calls'[c] = r /\ pending' = confirm.key
    BY <1>0, <1>3, BegunAtIdle DEF ExecutePower
  <2>2. r.kind = "power" /\ r.key = confirm.key
    BY DEF Idle
  <2> HIDE DEF r
  <2> QED
    BY <2>1, <2>2
<1>4. CASE User
  <2>1. ASSUME \/ \E t \in Tabs : SelectTab(t)
               \/ \E t \in Name \cup Group : Toggle(t)
               \/ \E t \in Token : TypeToken(t)
               \/ \E fs \in Filters : EditFilters(fs)
               \/ \E m \in Modals : CloseModal(m)
               \/ \E n \in Name, action \in {"stop", "start"} : ChangePower(n, action)
               \/ CancelPower
        PROVE  calls' = calls /\ pending' = pending
    BY <2>1 DEF SelectTab, Toggle, TypeToken, EditFilters, CloseModal, ChangePower, CancelPower
  <2>2. ~Reload
    BY DEF Reload
  <2> QED
    BY <1>1, <1>2, <1>3, <1>4, <2>1, <2>2 DEF User
<1>5. ASSUME NEW l \in Listings, ServerChanges(l) PROVE Goal
  <2>1. calls' = calls /\ pending' = pending
    BY <1>5 DEF ServerChanges, page
  <2> QED
    BY <1>1, <2>1
<1>6. ASSUME NEW c \in Call, \/ \E p \in Part : Answer(c, p)
                             \/ ServePower(c)
                             \/ \E m \in Modals : ModalSettles(m, c)
                             \/ PowerDone(c)
      PROVE  Goal
  <2>1. pending' = pending
    BY <1>6 DEF Answer, ServePower, ModalSettles, PowerDone, page
  <2>2. PICK d \in Call : Waits(d)
    BY <1>0, <2>1
  <2>3. CASE \E p \in Part : Answer(c, p)
    <3>1. PICK p \in Part : calls' = [calls EXCEPT ![c] = [calls[c] EXCEPT !.got[p] = Version]]
      BY <1>0, <2>3 DEF Answer, Sampled, TypeOK
    <3>2. calls'[d].kind = calls[d].kind /\ calls'[d].key = calls[d].key
      BY <1>0, <3>1 DEF TypeOK, CallState
    <3> QED
      BY <2>1, <2>2, <3>2
  <2>4. CASE ServePower(c)
    <3>1. PICK result, effect : Handled(c, result, effect)
      BY <2>4 DEF ServePower
    <3>2. calls'[d].kind = calls[d].kind /\ calls'[d].key = calls[d].key
      BY <1>0, <2>2, <3>1 DEF Handled, TypeOK, CallState
    <3> QED
      BY <2>1, <2>2, <3>2
  <2>5. CASE \E m \in Modals : ModalSettles(m, c)
    <3>1. calls[c].kind \notin {"power", "read"} /\ calls' = [calls EXCEPT ![c] = Idle]
      BY <2>5 DEF ModalSettles, Modals
    <3> QED
      BY <1>0, <2>1, <2>2, <3>1, OthersStay
  <2>6. CASE PowerDone(c)
    <3>1. calls' = [calls EXCEPT ![c] = Follows(c)]
      BY <1>0, <2>6 DEF PowerDone, Follows, TypeOK
    <3>2. calls'[d].kind \in {"power", "read"} /\ calls'[d].key = calls[d].key
      BY <1>0, <2>2, <3>1, FollowsTypes, OthersStay
    <3> QED
      BY <2>1, <2>2, <3>2
  <2> QED
    BY <1>6, <2>3, <2>4, <2>5, <2>6
<1>7. ASSUME NEW c \in Call, Settle(c) \/ Reject(c) \/ PowerFails(c) PROVE Goal
  <2>1. PICK r : calls' = [calls EXCEPT ![c] = r] /\ pending' = PendingAfter(c)
    BY <1>7 DEF Settle, Reject, PowerFails
  <2>2. calls[c].key = NoKey /\ pending' = pending
    BY <2>1 DEF PendingAfter
  <2>3. PICK d \in Call : Waits(d)
    BY <1>0, <2>2
  <2>4. d # c
    BY <2>2, <2>3
  <2> QED
    BY <1>0, <2>1, <2>2, <2>3, <2>4, OthersStay
<1> QED
  BY <1>4, <1>5, <1>6, <1>7 DEF Next

\* A modal's own request is under way until it is answered.
LEMMA ModalStaysItsOwn ==
    ASSUME IInv, Next
    PROVE  ModalIsItsOwn'
<1> DEFINE Own(f, g) == \A m \in Modals :
               /\ f[m].body = "answer" => f[m].of = f[m].on
               /\ f[m].on # 0 /\ f[m].body = "loading" =>
                     \E c \in Call : g[c].kind = m /\ g[c].on = f[m].on
<1>0. TypeOK /\ Own(modal, calls) /\ modal \in [Modals -> ModalState]
  BY DEF IInv, TypeOK, ModalIsItsOwn
<1> SUFFICES Own(modal', calls')
  BY DEF ModalIsItsOwn
<1>1. ASSUME modal' = modal,
             \A d \in Call : calls[d].kind \in Modals =>
                 calls'[d].kind = calls[d].kind /\ calls'[d].on = calls[d].on
      PROVE  Own(modal', calls')
  BY <1>0, <1>1
<1>2. ASSUME NEW c \in Call, Refresh(c) \/ SaveToken(c) \/ ResetFilters(c) \/ ExecutePower(c)
      PROVE  Own(modal', calls')
  <2>1. PICK r : Starts(c, r) /\ modal' = modal
    BY <1>2 DEF Refresh, SaveToken, ResetFilters, ExecutePower
  <2> QED
    BY <1>0, <1>1, <2>1, BegunAtIdle DEF Modals
<1>3. ASSUME NEW m \in Modals, NEW c \in Call, NEW n \in Name, OpenModal(m, c, n)
      PROVE  Own(modal', calls')
  <2> DEFINE r == [Idle EXCEPT !.kind = m, !.on = n, !.token = token]
  <2>1. Starts(c, r) /\ modal' = [modal EXCEPT ![m] = [on |-> n, body |-> "loading", of |-> 0]]
    BY <1>3 DEF OpenModal
  <2>2. r.kind = m /\ r.on = n
    BY DEF Idle
  <2> HIDE DEF r
  <2>3. /\ calls'[c] = r
        /\ \A d \in Call : calls[d].kind \in Modals => calls'[d] = calls[d]
    BY <1>0, <2>1, BegunAtIdle DEF Modals
  <2>4. ASSUME NEW k \in Modals
        PROVE  modal'[k] = IF k = m THEN [on |-> n, body |-> "loading", of |-> 0] ELSE modal[k]
    BY <1>0, <2>1
  <2> QED
    BY <1>0, <2>2, <2>3, <2>4
<1>4. ASSUME NEW m \in Modals, CloseModal(m) PROVE Own(modal', calls')
  <2>1. calls' = calls /\ modal' = [modal EXCEPT ![m] = Closed]
    BY <1>4 DEF CloseModal
  <2>2. \A k \in Modals : modal'[k] = IF k = m THEN Closed ELSE modal[k]
    BY <1>0, <2>1
  <2>3. Closed.on = 0 /\ Closed.body = "loading"
    BY DEF Closed
  <2> QED
    BY <1>0, <2>1, <2>2, <2>3
<1>5. CASE Reload
  <2>1. \A k \in Modals : modal'[k] = Closed
    BY <1>5 DEF Reload
  <2>2. Closed.on = 0 /\ Closed.body = "loading"
    BY DEF Closed
  <2> QED
    BY <2>1, <2>2
<1>6. ASSUME \/ \E t \in Tabs : SelectTab(t)
             \/ \E t \in Name \cup Group : Toggle(t)
             \/ \E t \in Token : TypeToken(t)
             \/ \E fs \in Filters : EditFilters(fs)
             \/ \E n \in Name, action \in {"stop", "start"} : ChangePower(n, action)
             \/ CancelPower
      PROVE  calls' = calls /\ modal' = modal
  BY <1>6 DEF SelectTab, Toggle, TypeToken, EditFilters, ChangePower, CancelPower
<1>7. CASE User
  BY <1>1, <1>2, <1>3, <1>4, <1>5, <1>6, <1>7 DEF User
<1>8. ASSUME NEW l \in Listings, ServerChanges(l) PROVE calls' = calls /\ modal' = modal
  BY <1>8 DEF ServerChanges, page
<1>9. ASSUME NEW c \in Call, NEW p \in Part, Answer(c, p) PROVE Own(modal', calls')
  <2>1. /\ calls' = [calls EXCEPT ![c] = [calls[c] EXCEPT !.got[p] = Version]]
        /\ modal' = modal
    BY <1>0, <1>9 DEF Answer, Sampled, TypeOK, page
  <2>2. \A d \in Call : calls'[d].kind = calls[d].kind /\ calls'[d].on = calls[d].on
    BY <1>0, <2>1 DEF TypeOK, CallState
  <2> QED
    BY <1>1, <2>1, <2>2
<1>10. ASSUME NEW c \in Call,
              ServePower(c) \/ Settle(c) \/ Reject(c) \/ PowerDone(c) \/ PowerFails(c)
       PROVE  Own(modal', calls')
  <2>1. calls[c].kind \notin Modals /\ modal' = modal
    BY <1>10 DEF ServePower, Settle, Reject, PowerDone, PowerFails, Modals, page
  <2>2. PICK r : calls' = [calls EXCEPT ![c] = r]
    BY <1>10 DEF ServePower, Handled, Settle, Reject, PowerDone, PowerFails
  <2> QED
    BY <1>0, <1>1, <2>1, <2>2, OthersStay
<1>11. ASSUME NEW c \in Call, NEW m \in Modals, ModalSettles(m, c) PROVE Own(modal', calls')
  <2>1. PICK body \in {"answer", "error"} :
            modal' = [modal EXCEPT ![m] = ModalShows(m, calls[c].on, body)]
    BY <1>11 DEF ModalSettles
  <2> DEFINE w == ModalShows(m, calls[c].on, body)
  <2>2. w.body = body /\ w.on = calls[c].on /\ (body = "answer" => w.of = w.on)
    BY DEF ModalShows
  <2> HIDE DEF w
  <2>3. calls[c].kind = m /\ calls' = [calls EXCEPT ![c] = Idle]
    BY <1>11 DEF ModalSettles
  <2>4. \A k \in Modals : modal'[k] = IF k = m THEN w ELSE modal[k]
    BY <1>0, <2>1 DEF w
  <2>5. \A d \in Call : d # c => calls'[d] = calls[d]
    BY <1>0, <2>3, OthersStay
  <2> QED
    BY <1>0, <2>2, <2>3, <2>4, <2>5
<1>12. CASE calls' = calls /\ modal' = modal
  BY <1>0, <1>12
<1> QED
  BY <1>7, <1>8, <1>9, <1>10, <1>11, <1>12 DEF Next

-----------------------------------------------------------------------------
(* The invariant. *)

LEMMA InitIInv ==
    ASSUME Init
    PROVE  IInv
<1>1. TypeOK
  BY InitTypes
<1>2. CallsAreSound
  <2>1. [c \in Call |-> Idle] \in [Call -> CallState]
    BY IdleTypes
  <2>2. calls \in Mounted([c \in Call |-> Idle], stored) /\ stored \in Tokens
    BY <1>1 DEF Init, TypeOK
  <2> QED
    BY <1>1, <2>1, <2>2, MountedIsSound DEF CallsAreSound
<1>3. RecordsAreKept
  <2>1. PICK l \in Listings : history = <<l>>
    BY DEF Init
  <2> QED
    BY <2>1, ListingsAreKept DEF RecordsAreKept, Version
<1>4. AllOrNothing
  BY DEF Init, NoData, AllOrNothing
<1>5. ConfirmIsSound
  BY DEF Init, NoConfirm, ConfirmIsSound
<1>6. NeverBlank /\ PendingIsReal
  BY DEF Init, NeverBlank, PendingIsReal
<1>7. ModalIsItsOwn
  BY DEF Init, Closed, ModalIsItsOwn
<1> QED
  BY <1>1, <1>2, <1>3, <1>4, <1>5, <1>6, <1>7 DEF IInv

LEMMA NextIInv ==
    ASSUME IInv, Next
    PROVE  IInv'
<1>1. TypeOK'
  BY UserTypes, OtherTypes
<1>2. CallsAreSound'
  BY UserSound, OtherSound
<1> QED
  BY <1>1, <1>2, RecordsStayKept, NothingMixed, ConfirmStaysSound, StaysUnblank,
     PendingStaysReal, ModalStaysItsOwn DEF IInv

LEMMA StutterIInv ==
    ASSUME IInv, UNCHANGED vars
    PROVE  IInv'
<1>1. /\ history' = history /\ calls' = calls /\ stored' = stored /\ token' = token
      /\ tab' = tab /\ loading' = loading /\ error' = error /\ data' = data
      /\ filters' = filters /\ expanded' = expanded /\ modal' = modal
      /\ confirm' = confirm /\ pending' = pending
  BY DEF vars, page
<1>2. Version' = Version
  BY <1>1 DEF Version
<1>3. TypeOK'
  BY <1>1, <1>2 DEF IInv, TypeOK
<1>4. CallsAreSound' /\ RecordsAreKept' /\ AllOrNothing' /\ ConfirmIsSound'
  BY <1>1, <1>2 DEF IInv, CallsAreSound, RecordsAreKept, AllOrNothing, ConfirmIsSound
<1>5. NeverBlank' /\ PendingIsReal' /\ ModalIsItsOwn'
  BY <1>1 DEF IInv, NeverBlank, PendingIsReal, ModalIsItsOwn
<1> QED
  BY <1>3, <1>4, <1>5 DEF IInv

LEMMA Inductive == Spec => []IInv
<1>1. Init => IInv
  BY InitIInv
<1>2. IInv /\ [Next]_vars => IInv'
  BY NextIInv, StutterIInv
<1> QED
  BY <1>1, <1>2, PTL DEF Spec

-----------------------------------------------------------------------------
(* What it gives. *)

\* The page and its handlers are well-formed in every reachable state, however
\* their continuations and the user interleave, and no version is shown that
\* the server never had.
THEOREM TypeCorrect == Spec => []TypeOK
<1>1. IInv => TypeOK
  BY DEF IInv
<1> QED
  BY <1>1, Inductive, PTL

\* The loading panel only makes place for a listing or an error.
THEOREM PageIsNeverBlank == Spec => []NeverBlank
<1>1. IInv => NeverBlank
  BY DEF IInv
<1> QED
  BY <1>1, Inductive, PTL

LEMMA ShownIsListing ==
    ASSUME IInv, data.version["instances"] # 0
    PROVE  /\ Shown \in Listing /\ MasterIsCurrent(Shown)
           /\ data.version["instances"] \in 1 .. Version
           /\ data.version["servers"] \in 1 .. Version
<1>1. /\ data.version["instances"] \in 1 .. Version
      /\ data.version["servers"] \in 1 .. Version
  BY PartsAreLists DEF IInv, AllOrNothing, Blank
<1> QED
  BY <1>1 DEF IInv, TypeOK, RecordsAreKept, Shown, Version

\* Every instance of a group has a row and its buttons, whatever listing of
\* the server the page has come to show.
THEOREM NobodyIsEverHidden == Spec => []NobodyIsHidden
<1>1. IInv => NobodyIsHidden
  BY ShownIsListing, EveryoneHasARow DEF NobodyIsHidden
<1> QED
  BY <1>1, Inductive, PTL

\* Badges tell the worst of their groups, and the counts on top of the page
\* never claim a health that the listing shown does not have.
THEOREM BadgesAreAlwaysTrue == Spec => []BadgesAreTrue
<1>1. ASSUME IInv PROVE BadgesAreTrue
  <2> SUFFICES ASSUME data.version["instances"] # 0,
                      NEW nodes, nodes = history[data.version["servers"]].nodes
               PROVE  /\ BadgeTellsTheWorst(Shown)
                      /\ Alerts(Shown, nodes) = 0 =>
                            /\ \A n \in DOMAIN Shown.items :
                                   Tone(Shown.items[n].status) # "bad"
                            /\ \A s \in Node : nodes[s] # "unhealthy"
                      /\ HealthyGroups(Shown) = Cardinality(Titles(Shown)) =>
                            \A n \in DOMAIN Shown.items : Shown.items[n].status = "running"
    BY DEF BadgesAreTrue
  <2>1. Shown \in Listing
    BY <1>1, ShownIsListing
  <2> HIDE DEF Shown
  <2> QED
    BY <2>1, BadgesTellTheWorst, NoAlertsNoTrouble, AllHealthyAllRun
<1> QED
  BY <1>1, Inductive, PTL

\* What waits to be confirmed or to be carried out was admitted in the state
\* that the user looked at.
THEOREM ActionsWereAdmitted == Spec => []OffersAreAdmitted
<1>1. IInv => OffersAreAdmitted
  BY DEF IInv, CallsAreSound, Sound, ConfirmIsSound, OffersAreAdmitted
<1> QED
  BY <1>1, Inductive, PTL

\* The one pending action of the page is on its way or its refresh is.
THEOREM WaitingIsReal == Spec => []PendingIsReal
<1>1. IInv => PendingIsReal
  BY DEF IInv
<1> QED
  BY <1>1, Inductive, PTL

\* A modal shows its own instance or has its own request under way.
THEOREM ModalsAreTheirOwn == Spec => []ModalIsItsOwn
<1>1. IInv => ModalIsItsOwn
  BY DEF IInv
<1> QED
  BY <1>1, Inductive, PTL

\* The refresh after an action never shows a listing from before the action.
THEOREM OwnWorkIsShown == Spec => ShowsItsOwnWork
<1>1. ASSUME IInv, NEW c \in Call, Settle(c)
      PROVE  data'.version["instances"] >= calls[c].effect
  <2>1. CASE calls[c].ignored
    <3>1. calls[c].effect = 0 /\ data' = data
      BY <1>1, <2>1 DEF IInv, CallsAreSound, Sound, Settle
    <3>2. data.version["instances"] \in Nat
      BY <1>1, PartsAreLists DEF IInv, TypeOK
    <3> QED
      BY <3>1, <3>2
  <2>2. CASE ~calls[c].ignored
    <3>1. data'.version = calls[c].got
      BY <1>1, <2>2 DEF Settle
    <3>2. /\ calls[c].got["instances"] \in calls[c].asked .. Version
          /\ calls[c].effect <= calls[c].asked
          /\ calls[c].asked \in Nat /\ calls[c].effect \in Nat
      BY <1>1, CompleteAnswers, PartsAreLists DEF IInv, TypeOK, CallState
    <3>3. Version \in Nat
      BY <1>1 DEF IInv, TypeOK
    <3> QED
      BY <3>1, <3>2, <3>3
  <2> QED
    BY <2>1, <2>2
<1>2. IInv => [\A c \in Call : Settle(c) => data'.version["instances"] >= calls[c].effect]_vars
  BY <1>1
<1> QED
  BY <1>2, Inductive, PTL DEF ShowsItsOwnWork

-----------------------------------------------------------------------------
(* The page implements a reader of bounded staleness. *)

LEMMA QuestionTypes ==
    ASSUME IInv, NEW c \in Call
    PROVE  /\ Question(calls[c]) \in Nat
           /\ calls[c].kind = "read" /\ ~calls[c].ignored =>
                 Question(calls[c]) = calls[c].asked /\ Question(calls[c]) # 0
           /\ calls[c].kind # "read" \/ calls[c].ignored => Question(calls[c]) = 0
BY DEF IInv, TypeOK, CallState, CallsAreSound, Sound, Question

\* Steps in which no handler starts to read or ends it, and which leave the
\* page's data alone, change nothing or only the version.
LEMMA QuietCalls ==
    ASSUME IInv, NEW c \in Call, NEW r, calls' = [calls EXCEPT ![c] = r],
           Question(r) = Question(calls[c])
    PROVE  \A d \in Call : Question(calls'[d]) = Question(calls[d])
BY OthersStay DEF IInv

LEMMA QuietStep ==
    ASSUME \A d \in Call : Question(calls'[d]) = Question(calls[d]),
           data' = data
    PROVE  /\ history' = history => UNCHANGED Reads!vars
           /\ Version' = Version + 1 => Reads!Write
<1>1. [d \in Call |-> Question(calls'[d])] = [d \in Call |-> Question(calls[d])]
  OBVIOUS
<1>2. history' = history => Version' = Version
  BY DEF Version
<1> HIDE DEF Question, Version
<1> QED
  BY <1>1, <1>2 DEF Reads!vars, Reads!Write

\* The questions of all handlers after one of them has gone on.
LEMMA OneQuestion ==
    ASSUME IInv, NEW c \in Call, NEW r, calls' = [calls EXCEPT ![c] = r]
    PROVE  [d \in Call |-> Question(calls'[d])] =
           [[d \in Call |-> Question(calls[d])] EXCEPT ![c] = Question(r)]
<1>1. calls'[c] = r /\ \A d \in Call : d # c => calls'[d] = calls[d]
  BY OthersStay DEF IInv
<1>2. \A d \in Call : Question(calls'[d]) = IF d = c THEN Question(r) ELSE Question(calls[d])
  BY <1>1
<1> DEFINE Q(d) == Question(calls[d])
           P(d) == Question(calls'[d])
           q    == Question(r)
<1>3. \A d \in Call : P(d) = IF d = c THEN q ELSE Q(d)
  BY <1>2
<1> HIDE DEF P, Q, q
<1>4. [d \in Call |-> P(d)] = [[d \in Call |-> Q(d)] EXCEPT ![c] = q]
  BY <1>3
<1> QED
  BY <1>4 DEF P, Q, q

\* A handler that begins to read asks.
LEMMA AskStep ==
    ASSUME IInv, NEW c \in Call, NEW r, calls' = [calls EXCEPT ![c] = r],
           Question(calls[c]) = 0, Question(r) = Version,
           history' = history, data' = data
    PROVE  Reads!Ask(c)
<1>1. Version' = Version
  BY DEF Version
<1>2. [d \in Call |-> Question(calls'[d])] =
      [[d \in Call |-> Question(calls[d])] EXCEPT ![c] = Version]
  BY OneQuestion
<1> HIDE DEF Question, Version
<1> QED
  BY <1>1, <1>2 DEF Reads!Ask

\* The end of a read shows what was answered, gives up, or does not count.
LEMMA EndStep ==
    ASSUME IInv, NEW c \in Call, Settle(c) \/ Reject(c)
    PROVE  Reads!Show(c) \/ Reads!GiveUp(c) \/ UNCHANGED Reads!vars
<1>1. /\ calls[c].kind = "read" /\ calls' = [calls EXCEPT ![c] = Idle]
      /\ history' = history /\ Version' = Version
  BY DEF Settle, Reject, Version
<1>2. Question(Idle) = 0
  BY IdleTypes DEF Question
<1>3. CASE calls[c].ignored
  <2>1. data' = data
    BY <1>3 DEF Settle, Reject
  <2>2. Question(Idle) = Question(calls[c])
    BY <1>2, <1>3, QuestionTypes
  <2> QED
    BY <1>1, <2>1, <2>2, QuietCalls, QuietStep
<1>4. CASE ~calls[c].ignored
  <2>1. [d \in Call |-> Question(calls'[d])] =
        [[d \in Call |-> Question(calls[d])] EXCEPT ![c] = 0]
    BY <1>1, <1>2, OneQuestion
  <2>2. Question(calls[c]) # 0 /\ Question(calls[c]) = calls[c].asked
    BY <1>1, <1>4, QuestionTypes
  <2>3. CASE Settle(c)
    <3>1. data'.version = calls[c].got
      BY <1>4, <2>3 DEF Settle
    <3>2. data'.version \in [Part -> Question(calls[c]) .. Version]
      BY <2>2, <2>3, <3>1, CompleteAnswers
    <3> HIDE DEF Question, Version
    <3> QED
      BY <1>1, <2>1, <2>2, <3>2 DEF Reads!Show
  <2>4. CASE Reject(c)
    <3>1. data' = data
      BY <2>4 DEF Reject
    <3> HIDE DEF Question, Version
    <3> QED
      BY <1>1, <2>1, <2>2, <3>1 DEF Reads!GiveUp
  <2> QED
    BY <2>3, <2>4
<1> QED
  BY <1>3, <1>4

LEMMA UserReads ==
    ASSUME IInv, User
    PROVE  Reads!Next \/ UNCHANGED Reads!vars
<1>0. history' = history /\ Version' = Version
  BY UserKeepsHistory
<1>1. ASSUME NEW c \in Call, Refresh(c) \/ SaveToken(c) \/ ResetFilters(c)
      PROVE  Reads!Ask(c)
  <2> DEFINE r == Reading(token, filters)
  <2>1. Starts(c, r) /\ data' = data
    BY <1>1 DEF Refresh, SaveToken, ResetFilters
  <2>2. r.kind = "read" /\ ~r.ignored /\ r.asked = Version
    BY ReadingTypes DEF IInv, TypeOK
  <2> HIDE DEF r
  <2>3. Question(calls[c]) = 0 /\ Question(r) = Version
    BY <2>1, <2>2, BegunAtIdle DEF IInv, Question
  <2> QED
    BY <1>0, <2>1, <2>3, AskStep DEF Starts
<1>2. ASSUME NEW c \in Call, NEW r, Starts(c, r), r.kind # "read", data' = data
      PROVE  UNCHANGED Reads!vars
  <2>1. Question(calls[c]) = 0 /\ Question(r) = 0
    BY <1>2, BegunAtIdle DEF IInv, Question
  <2> QED
    BY <1>0, <1>2, <2>1, QuietCalls, QuietStep DEF Starts
<1>3. ASSUME NEW c \in Call, ExecutePower(c) PROVE UNCHANGED Reads!vars
  <2> DEFINE r == [Idle EXCEPT !.kind = "power", !.key = confirm.key, !.token = token,
                               !.filters = filters, !.seen = confirm.seen]
  <2>1. r.kind # "read"
    BY DEF Idle
  <2>2. Starts(c, r) /\ data' = data
    BY <1>3 DEF ExecutePower
  <2> HIDE DEF r
  <2> QED
    BY <1>2, <2>1, <2>2
<1>4. ASSUME NEW m \in Modals, NEW c \in Call, NEW n \in Name, OpenModal(m, c, n)
      PROVE  UNCHANGED Reads!vars
  <2> DEFINE r == [Idle EXCEPT !.kind = m, !.on = n, !.token = token]
  <2>1. r.kind # "read"
    BY DEF Idle, Modals
  <2>2. Starts(c, r) /\ data' = data
    BY <1>4 DEF OpenModal
  <2> HIDE DEF r
  <2> QED
    BY <1>2, <2>1, <2>2
<1>5. CASE Reload
  <2>1. calls' \in Mounted(calls, stored) /\ calls \in [Call -> CallState]
        /\ stored \in Tokens /\ TypeOK
    BY <1>5 DEF Reload, IInv, TypeOK
  <2>2. \A c \in Call : Question(calls'[c]) \in {0, Version}
    BY <2>1, MountedIsSound
  <2>3. data'.version = Blank
    BY <1>5 DEF Reload, NoData
  <2> HIDE DEF Question, Version
  <2>4. Reads!Restart
    BY <1>0, <2>2, <2>3 DEF Reads!Restart, Reads!Blank, Blank
  <2> QED
    BY <2>4 DEF Reads!Next
<1>6. ASSUME \/ \E t \in Tabs : SelectTab(t)
             \/ \E t \in Name \cup Group : Toggle(t)
             \/ \E t \in Token : TypeToken(t)
             \/ \E fs \in Filters : EditFilters(fs)
             \/ \E m \in Modals : CloseModal(m)
             \/ \E n \in Name, action \in {"stop", "start"} : ChangePower(n, action)
             \/ CancelPower
      PROVE  UNCHANGED Reads!vars
  <2>1. calls' = calls /\ data' = data
    BY <1>6 DEF SelectTab, Toggle, TypeToken, EditFilters, CloseModal, ChangePower, CancelPower
  <2> QED
    BY <1>0, <2>1, QuietStep
<1> QED
  BY <1>1, <1>3, <1>4, <1>5, <1>6 DEF User, Reads!Next

LEMMA OtherReads ==
    ASSUME IInv, Next, ~User
    PROVE  Reads!Next \/ UNCHANGED Reads!vars
<1>1. ASSUME NEW l \in Listings, ServerChanges(l) PROVE Reads!Write
  <2>1. calls' = calls /\ data' = data
    BY <1>1 DEF ServerChanges, page
  <2>2. Version' = Version + 1
    BY <1>1, ListingsAreKept, HistoryGrows DEF ServerChanges, IInv
  <2> QED
    BY <2>1, <2>2, QuietStep
<1>2. ASSUME NEW c \in Call, NEW p \in Part, Answer(c, p) PROVE UNCHANGED Reads!vars
  <2> DEFINE r == [calls[c] EXCEPT !.got[p] = Version]
  <2>1. calls' = [calls EXCEPT ![c] = r] /\ data' = data /\ history' = history
    BY <1>2 DEF Answer, Sampled, IInv, TypeOK, page
  <2>2. r.kind = calls[c].kind /\ r.ignored = calls[c].ignored /\ r.asked = calls[c].asked
    BY DEF IInv, TypeOK, CallState
  <2> HIDE DEF r
  <2>3. Question(r) = Question(calls[c])
    BY <2>2 DEF Question
  <2> QED
    BY <2>1, <2>3, QuietCalls, QuietStep
<1>3. ASSUME NEW c \in Call, ServePower(c) PROVE Reads!Write \/ UNCHANGED Reads!vars
  <2> DEFINE key == calls[c].key
  <2>1. data' = data /\ calls[c].kind \in {"power", "orphan"}
    BY <1>3 DEF ServePower, page
  <2>2. ASSUME NEW result, NEW effect, Handled(c, result, effect)
        PROVE  \A d \in Call : Question(calls'[d]) = Question(calls[d])
    <3> DEFINE r == Outcome(c, result, effect)
    <3>1. calls' = [calls EXCEPT ![c] = r]
      BY <2>2 DEF Handled, Outcome, IInv, TypeOK
    <3>2. r.kind # "read"
      BY <2>1, IdleTypes DEF Outcome, IInv, TypeOK, CallState
    <3> HIDE DEF r
    <3>3. Question(r) = Question(calls[c])
      BY <2>1, <3>2 DEF Question
    <3> QED
      BY <3>1, <3>3, QuietCalls
  <2>3. CASE /\ Admits(Now, key.name, key.action)
             /\ Version < MaxVersion
             /\ history' = Append(history, Powered(Now, key.name, key.action))
             /\ Handled(c, "ok", Version + 1)
    <3>1. Version' = Version + 1
      BY <2>3, PoweredNow, HistoryGrows DEF IInv
    <3> QED
      BY <2>1, <2>2, <2>3, <3>1, QuietStep
  <2>4. CASE Handled(c, "refused", 0) /\ history' = history
    BY <2>1, <2>2, <2>4, QuietStep
  <2> QED
    BY <1>3, <2>3, <2>4 DEF ServePower
<1>4. ASSUME NEW c \in Call, NEW m \in Modals, ModalSettles(m, c)
      PROVE  UNCHANGED Reads!vars
  <2>1. /\ calls[c].kind # "read" /\ calls' = [calls EXCEPT ![c] = Idle]
        /\ data' = data /\ history' = history
    BY <1>4 DEF ModalSettles, Modals
  <2>2. Question(Idle) = Question(calls[c])
    BY <2>1, IdleTypes DEF Question
  <2> QED
    BY <2>1, <2>2, QuietCalls, QuietStep
<1>5. ASSUME NEW c \in Call, PowerDone(c) PROVE Reads!Ask(c)
  <2>1. /\ calls[c].kind # "read" /\ calls' = [calls EXCEPT ![c] = Follows(c)]
        /\ data' = data /\ history' = history
    BY <1>5 DEF PowerDone, Follows, IInv, TypeOK
  <2>2. Question(calls[c]) = 0 /\ Question(Follows(c)) = Version
    BY <2>1, FollowsTypes DEF Question, IInv
  <2> QED
    BY <2>1, <2>2, AskStep
<1>6. ASSUME NEW c \in Call, PowerFails(c) PROVE UNCHANGED Reads!vars
  <2>1. PICK r \in {Idle, Survivor(calls[c])} :
            calls' = [calls EXCEPT ![c] = r] /\ data' = data /\ history' = history
    BY <1>6 DEF PowerFails
  <2>2. r.kind # "read" /\ calls[c].kind # "read"
    BY <1>6, IdleTypes, SurvivorTypes DEF PowerFails, IInv, TypeOK
  <2>3. Question(r) = Question(calls[c])
    BY <2>2 DEF Question
  <2> QED
    BY <2>1, <2>3, QuietCalls, QuietStep
<1>7. ASSUME NEW c \in Call, Settle(c) \/ Reject(c)
      PROVE  Reads!Next \/ UNCHANGED Reads!vars
  BY <1>7, EndStep DEF Reads!Next
<1> QED
  BY <1>1, <1>2, <1>3, <1>4, <1>5, <1>6, <1>7 DEF Next, Reads!Next

\* Whatever the user does and in whatever order answers come or fail, the page
\* as a viewer sees it is a reader of bounded staleness: what it shows are
\* versions of the server from between a question and its answer, of all
\* lists or of none.
THEOREM ReadsImplemented == Spec => ReadsAreBounded
<1>1. Init => Reads!Init
  <2> SUFFICES ASSUME Init PROVE Reads!Init
    OBVIOUS
  <2>1. Version = 1
    BY DEF Init, Version
  <2>2. \A c \in Call : Question(calls[c]) \in {0, 1}
    <3>1. [c \in Call |-> Idle] \in [Call -> CallState] /\ TypeOK
      BY IdleTypes, InitTypes
    <3>2. calls \in Mounted([c \in Call |-> Idle], stored) /\ stored \in Tokens
      BY <3>1 DEF Init, TypeOK
    <3> QED
      BY <2>1, <3>1, <3>2, MountedIsSound
  <2>3. data.version = Blank
    BY DEF Init, NoData
  <2> HIDE DEF Question, Version
  <2> QED
    BY <2>1, <2>2, <2>3 DEF Reads!Init, Reads!Blank, Blank
<1>2. ASSUME IInv, [Next]_vars PROVE [Reads!Next]_(Reads!vars)
  <2>1. CASE Next
    BY <1>2, <2>1, UserReads, OtherReads
  <2>2. CASE UNCHANGED vars
    BY <2>2, QuietStep DEF vars, page
  <2> QED
    BY <1>2, <2>1, <2>2
<1> QED
  BY <1>1, <1>2, Inductive, PTL DEF Spec, ReadsAreBounded, Reads!Spec

=============================================================================
