---------------------------- MODULE SessionsProofs ----------------------------
(***************************************************************************)
(* Theorems about Sessions, for any number of tabs, calls, tokens and      *)
(* moves of the user.                                                      *)
(***************************************************************************)
EXTENDS Sessions, SequenceTheorems, TLAPS

\* A call that was refused carried a token that is dead for good.
RefusedAreDead ==
    \A t \in Tab : \A i \in DOMAIN calls[t] :
        calls[t][i].answer = Unauthorized => ~Valid(calls[t][i].token)

\* A login page has no calls of its own.
LoginIsQuiet ==
    \A t \in Tab : tab[t].page = "login" => \A i \in DOMAIN calls[t] : calls[t][i].left

\* While a token is stored, the tab that stored it sends no other.
HolderSendsStored ==
    stored # NoToken =>
        \A i \in DOMAIN calls[holder] :
            calls[holder][i].left \/ calls[holder][i].token = stored

SessionsInv == RefusedAreDead /\ LoginIsQuiet /\ HolderSendsStored

-----------------------------------------------------------------------------
(* Tokens and answers                                                       *)

LEMMA Numbers ==
    /\ NoToken = 0 /\ Token = 1..MaxLogins
    /\ Nothing = MaxChanges + 1 /\ Listed = 0..MaxChanges
    /\ Waiting = MaxChanges + 2 /\ Unauthorized = MaxChanges + 3
    /\ MaxLogins \in Nat /\ MaxChanges \in Nat /\ MaxMoves \in Nat /\ MaxCalls \in Nat \ {0}
  BY SessionBoundsAssumption DEF NoToken, Token, Nothing, Listed, Waiting, Unauthorized

LEMMA Answers == Waiting \notin Listed /\ Unauthorized \notin Listed /\ Waiting # Unauthorized
  BY Numbers

\* What is stored can be sent.
LEMMA StoredFacts ==
    ASSUME TypeOK
    PROVE  /\ stored \in Token \union {NoToken} /\ stored \in Nat /\ stored <= issued
           /\ issued \in Nat /\ dead \in Nat /\ dead <= issued /\ issued <= MaxLogins
           /\ Valid(stored) => stored # NoToken
  BY Numbers DEF TypeOK, Valid

-----------------------------------------------------------------------------
(* The calls of a tab                                                       *)

LEMMA SeqFacts ==
    ASSUME NEW s \in Seq(Call)
    PROVE  /\ Len(s) \in Nat /\ DOMAIN s = 1..Len(s)
           /\ \A i \in DOMAIN s : s[i] \in Call
  BY LenProperties, ElementOfSeq

\* What is left of a sequence is what was there.
LEMMA Removed ==
    ASSUME NEW s \in Seq(Call), NEW i \in DOMAIN s
    PROVE  /\ RemoveAt(s, i) \in Seq(Call) /\ Len(RemoveAt(s, i)) = Len(s) - 1
           /\ \A j \in DOMAIN RemoveAt(s, i) : \E k \in DOMAIN s : RemoveAt(s, i)[j] = s[k]
<1> DEFINE a == SubSeq(s, 1, i - 1)
           b == SubSeq(s, i + 1, Len(s))
           r == RemoveAt(s, i)
<1>1. Len(s) \in Nat /\ DOMAIN s = 1..Len(s) /\ i \in 1..Len(s)
  BY SeqFacts
<1>2. /\ a \in Seq(Call) /\ Len(a) = i - 1
      /\ \A j \in 1..(i - 1) : a[j] = s[j]
  <2>1. 1 \in Int /\ i - 1 \in Int /\ \A j \in 1..(i - 1) : s[j] \in Call
    BY <1>1, SeqFacts
  <2>2. /\ a \in Seq(Call) /\ Len(a) = IF 1 <= i - 1 THEN (i - 1) - 1 + 1 ELSE 0
        /\ \A j \in 1..((i - 1) - 1 + 1) : a[j] = s[1 + j - 1]
    BY <2>1, SubSeqProperties
  <2> QED
    BY <1>1, <2>2
<1>3. /\ b \in Seq(Call) /\ Len(b) = Len(s) - i
      /\ \A j \in 1..(Len(s) - i) : b[j] = s[i + j]
  <2>1. i + 1 \in Int /\ Len(s) \in Int /\ \A j \in (i + 1)..Len(s) : s[j] \in Call
    BY <1>1, SeqFacts
  <2>2. /\ b \in Seq(Call) /\ Len(b) = IF i + 1 <= Len(s) THEN Len(s) - (i + 1) + 1 ELSE 0
        /\ \A j \in 1..(Len(s) - (i + 1) + 1) : b[j] = s[(i + 1) + j - 1]
    BY <2>1, SubSeqProperties
  <2> QED
    BY <1>1, <2>2
<1>4. /\ r = a \o b /\ r \in Seq(Call) /\ Len(r) = Len(s) - 1
      /\ \A j \in 1..(Len(s) - 1) : r[j] = IF j <= i - 1 THEN a[j] ELSE b[j - (i - 1)]
  <2> HIDE DEF a, b
  <2>1. /\ a \o b \in Seq(Call) /\ Len(a \o b) = Len(a) + Len(b)
        /\ \A j \in 1..(Len(a) + Len(b)) :
              (a \o b)[j] = IF j <= Len(a) THEN a[j] ELSE b[j - Len(a)]
    BY <1>2, <1>3, ConcatProperties
  <2>2. Len(a) + Len(b) = Len(s) - 1
    BY <1>1, <1>2, <1>3
  <2>3. r = a \o b
    BY DEF RemoveAt, a, b
  <2> QED
    BY <1>2, <2>1, <2>2, <2>3
<1>5. ASSUME NEW j \in DOMAIN r
      PROVE  \E k \in DOMAIN s : r[j] = s[k]
  <2> HIDE DEF a, b, r
  <2>1. j \in 1..(Len(s) - 1)
    BY <1>4, SeqFacts
  <2>2. CASE j <= i - 1
    <3>1. r[j] = s[j] /\ j \in 1..Len(s)
      BY <1>1, <1>2, <1>4, <2>1, <2>2
    <3> QED
      BY <1>1, <3>1
  <2>3. CASE ~(j <= i - 1)
    <3> DEFINE m == j - (i - 1)
    <3>1. m \in 1..(Len(s) - i) /\ i + m = j + 1 /\ j + 1 \in 1..Len(s)
      BY <1>1, <2>1, <2>3
    <3>2. r[j] = b[m]
      BY <1>4, <2>1, <2>3
    <3> HIDE DEF m
    <3>3. r[j] = s[j + 1]
      BY <1>3, <3>1, <3>2
    <3> QED
      BY <1>1, <3>1, <3>3
  <2> QED
    BY <2>2, <2>3
<1> QED
  BY <1>4, <1>5

LEMMA LeftBehind ==
    ASSUME NEW s \in Seq(Call)
    PROVE  LET r == [i \in DOMAIN s |-> [s[i] EXCEPT !.left = TRUE]]
           IN  /\ r \in Seq(Call) /\ Len(r) = Len(s) /\ DOMAIN r = DOMAIN s
               /\ \A i \in DOMAIN s : /\ r[i].left /\ r[i].token = s[i].token
                                      /\ r[i].answer = s[i].answer
<1> DEFINE r == [i \in DOMAIN s |-> [s[i] EXCEPT !.left = TRUE]]
<1>1. Len(s) \in Nat /\ DOMAIN s = 1..Len(s)
  BY SeqFacts
<1>2. ASSUME NEW c \in Call
      PROVE  LET d == [c EXCEPT !.left = TRUE]
             IN  d \in Call /\ d.left /\ d.token = c.token /\ d.answer = c.answer
  BY DEF Call
<1>3. ASSUME NEW i \in DOMAIN s
      PROVE  /\ r[i] \in Call /\ r[i].left /\ r[i].token = s[i].token
             /\ r[i].answer = s[i].answer
  BY <1>2, SeqFacts
<1>4. r \in [1..Len(s) -> Call] /\ DOMAIN r = DOMAIN s
  BY <1>1, <1>3
<1>5. r \in Seq(Call) /\ Len(r) = Len(s)
  <2> HIDE DEF r
  <2>1. r \in Seq(Call)
    BY <1>1, <1>4, SeqDef
  <2> QED
    BY <1>1, <1>4, <2>1, LenProperties
<1> QED
  BY <1>3, <1>4, <1>5

-----------------------------------------------------------------------------
(* What a step may do to the calls of tab t                                 *)

\* Call d is c, or what has become of it.
Follows(d, c) ==
    /\ d.token = c.token
    /\ c.left => d.left
    /\ d.answer = Unauthorized => c.answer = Unauthorized \/ ~Valid(c.token)

\* A call of this moment.
Fresh(t, d) == /\ d.token = stored /\ ~d.left /\ d.answer = Waiting
               /\ tab[t].page \in {"sites", "other"}

CallsMove(t) ==
    /\ calls' \in [Tab -> Seq(Call)]
    /\ \A u \in Tab : Len(calls'[u]) <= MaxCalls
    /\ \A u \in Tab \ {t} : calls'[u] = calls[u]
    /\ \A j \in DOMAIN calls'[t] :
          \/ \E k \in DOMAIN calls[t] : Follows(calls'[t][j], calls[t][k])
          \/ Fresh(t, calls'[t][j])

LEMMA CallsFacts ==
    ASSUME TypeOK, NEW t \in Tab
    PROVE  /\ calls \in [Tab -> Seq(Call)] /\ calls[t] \in Seq(Call)
           /\ Len(calls[t]) \in Nat /\ DOMAIN calls[t] = 1..Len(calls[t])
           /\ \A i \in DOMAIN calls[t] : calls[t][i] \in Call
  BY SeqFacts DEF TypeOK

LEMMA FollowsItself == ASSUME NEW c PROVE Follows(c, c)
  BY DEF Follows

LEMMA SameCalls ==
    ASSUME TypeOK, NEW t \in Tab, UNCHANGED calls
    PROVE  CallsMove(t)
  BY FollowsItself, CallsFacts DEF TypeOK, CallsMove

\* Every change of the calls of one tab has this form.
LEMMA OneTab ==
    ASSUME TypeOK, NEW t \in Tab, NEW s \in Seq(Call), calls' = [calls EXCEPT ![t] = s],
           Len(s) <= MaxCalls,
           \A j \in DOMAIN s : \/ \E k \in DOMAIN calls[t] : Follows(s[j], calls[t][k])
                              \/ Fresh(t, s[j])
    PROVE  CallsMove(t) /\ calls'[t] = s
<1>1. calls'[t] = s /\ \A u \in Tab \ {t} : calls'[u] = calls[u]
  BY DEF TypeOK
<1>2. calls' \in [Tab -> Seq(Call)] /\ \A u \in Tab : Len(calls'[u]) <= MaxCalls
  BY <1>1 DEF TypeOK
<1> QED
  BY <1>1, <1>2 DEF CallsMove

LEMMA DropMoves ==
    ASSUME TypeOK, NEW t \in Tab, DropCalls(t)
    PROVE  CallsMove(t) /\ calls'[t] = <<>>
<1>1. <<>> \in Seq(Call) /\ Len(<<>>) = 0 /\ 0 <= MaxCalls
  BY EmptySeq, Numbers
<1>2. DOMAIN <<>> = {}
  BY <1>1, SeqFacts
<1> QED
  BY <1>1, <1>2, OneTab DEF DropCalls

LEMMA LeaveMoves ==
    ASSUME TypeOK, NEW t \in Tab, LeaveCalls(t)
    PROVE  CallsMove(t) /\ \A i \in DOMAIN calls'[t] : calls'[t][i].left
<1> DEFINE s == [i \in DOMAIN calls[t] |-> [calls[t][i] EXCEPT !.left = TRUE]]
<1>1. calls[t] \in Seq(Call) /\ calls' = [calls EXCEPT ![t] = s] /\ Len(calls[t]) <= MaxCalls
  BY DEF TypeOK, LeaveCalls
<1>2. /\ s \in Seq(Call) /\ Len(s) = Len(calls[t]) /\ DOMAIN s = DOMAIN calls[t]
      /\ \A i \in DOMAIN calls[t] : /\ s[i].left /\ s[i].token = calls[t][i].token
                                    /\ s[i].answer = calls[t][i].answer
  BY <1>1, LeftBehind
<1> HIDE DEF s
<1>3. \A i \in DOMAIN s : Follows(s[i], calls[t][i]) /\ i \in DOMAIN calls[t]
  BY <1>2 DEF Follows
<1>4. Len(s) <= MaxCalls /\ \A i \in DOMAIN s : \E j \in DOMAIN calls[t] : Follows(s[i], calls[t][j])
  BY <1>1, <1>2, <1>3
<1>5. CallsMove(t) /\ calls'[t] = s
  BY <1>1, <1>2, <1>4, OneTab
<1> QED
  BY <1>2, <1>5

LEMMA ReceivedMoves ==
    ASSUME TypeOK, NEW t \in Tab, NEW i \in DOMAIN calls[t], Received(t, i)
    PROVE  CallsMove(t) /\ Len(calls'[t]) < Len(calls[t])
<1> DEFINE s == RemoveAt(calls[t], i)
<1>1. /\ calls[t] \in Seq(Call) /\ calls' = [calls EXCEPT ![t] = s] /\ Len(calls[t]) <= MaxCalls
      /\ Len(calls[t]) \in Nat /\ MaxCalls \in Nat
  BY CallsFacts, Numbers DEF TypeOK, Received
<1>2. /\ s \in Seq(Call) /\ Len(s) = Len(calls[t]) - 1
      /\ \A j \in DOMAIN s : \E k \in DOMAIN calls[t] : s[j] = calls[t][k]
  BY <1>1, Removed
<1> HIDE DEF s
<1>3. \A j \in DOMAIN s : \E k \in DOMAIN calls[t] : Follows(s[j], calls[t][k])
  BY <1>2, FollowsItself
<1>4. Len(s) <= MaxCalls /\ Len(s) < Len(calls[t])
  BY <1>1, <1>2
<1> QED
  BY <1>1, <1>2, <1>3, <1>4, OneTab

LEMMA SendMoves ==
    ASSUME TypeOK, NEW t \in Tab, Send(t), tab[t].page \in {"sites", "other"}
    PROVE  CallsMove(t)
<1> DEFINE c == [token |-> stored, left |-> FALSE, answer |-> Waiting]
           s == Append(calls[t], c)
<1>1. /\ calls[t] \in Seq(Call) /\ calls' = [calls EXCEPT ![t] = s] /\ Len(calls[t]) < MaxCalls
      /\ Len(calls[t]) \in Nat /\ MaxCalls \in Nat
  BY CallsFacts, Numbers DEF Send
<1>2. c \in Call /\ Fresh(t, c)
  BY StoredFacts DEF Call, Fresh
<1> HIDE DEF c
<1>3. /\ s \in Seq(Call) /\ Len(s) = Len(calls[t]) + 1
      /\ \A i \in 1..Len(calls[t]) : s[i] = calls[t][i]
      /\ s[Len(calls[t]) + 1] = c
  BY <1>1, <1>2, AppendProperties
<1> HIDE DEF s
<1>4. ASSUME NEW j \in DOMAIN s
      PROVE  \/ \E k \in DOMAIN calls[t] : Follows(s[j], calls[t][k])
             \/ Fresh(t, s[j])
  <2>1. j \in 1..(Len(calls[t]) + 1)
    BY <1>3, SeqFacts
  <2>2. CASE j \in 1..Len(calls[t])
    BY <1>3, <2>2, CallsFacts, FollowsItself
  <2>3. CASE j = Len(calls[t]) + 1
    BY <1>2, <1>3, <2>3
  <2> QED
    BY <1>1, <2>1, <2>2, <2>3
<1>5. Len(s) <= MaxCalls
  BY <1>1, <1>3
<1> QED
  BY <1>1, <1>3, <1>4, <1>5, OneTab

LEMMA ServeMoves ==
    ASSUME TypeOK, NEW t \in Tab, NEW i \in DOMAIN calls[t], Serve(t, i)
    PROVE  CallsMove(t)
<1> DEFINE c == calls[t][i]
           answer == IF Valid(c.token) THEN sites ELSE Unauthorized
           d == [c EXCEPT !.answer = answer]
           s == [calls[t] EXCEPT ![i] = d]
<1>1. /\ calls \in [Tab -> Seq(Call)] /\ calls[t] \in Seq(Call) /\ Len(calls[t]) <= MaxCalls
      /\ DOMAIN calls[t] = 1..Len(calls[t]) /\ c \in Call
  BY CallsFacts DEF TypeOK
<1>2. calls' = [calls EXCEPT ![t] = s]
  BY <1>1 DEF Serve
<1>3. sites \in Listed /\ answer \in Listed \union {Waiting, Unauthorized}
  BY DEF TypeOK
<1>4. answer = Unauthorized => ~Valid(c.token)
  BY <1>3, Answers
<1> HIDE DEF c, answer
<1>5. d \in Call /\ d.token = c.token /\ d.left = c.left /\ d.answer = answer
  BY <1>1, <1>3 DEF Call
<1>6. Follows(d, c)
  BY <1>4, <1>5 DEF Follows
<1> HIDE DEF d
<1>7. /\ s \in Seq(Call) /\ Len(s) = Len(calls[t])
      /\ \A j \in 1..Len(calls[t]) : s[j] = IF j = i THEN d ELSE calls[t][j]
  BY <1>1, <1>5, ExceptSeq
<1> HIDE DEF s
<1>8. \A j \in DOMAIN s : j \in DOMAIN calls[t] /\ Follows(s[j], calls[t][j])
  BY <1>1, <1>6, <1>7, SeqFacts, FollowsItself DEF c
<1>9. Len(s) <= MaxCalls
  BY <1>1, <1>7
<1> QED
  BY <1>2, <1>7, <1>8, <1>9, OneTab

-----------------------------------------------------------------------------
(* What a step of tab t may do to the pages and to the token                *)

TabMove(t) ==
    /\ tab' \in [Tab -> Tabs]
    /\ \A u \in Tab : tab'[u].page # "sites" => tab'[u].shown = Nothing
    /\ \A u \in Tab \ {t} : tab'[u] = tab[u]
    /\ tab'[t].page = "login" =>
          tab[t].page = "login" \/ \A i \in DOMAIN calls'[t] : calls'[t][i].left

\* stored is as it was, cleared, or replaced by tab t at its login page.
TokenMove(t) ==
    /\ stored' \in Token \union {NoToken} /\ holder' \in Tab
    /\ issued' \in 0..MaxLogins /\ dead' \in 0..issued'
    /\ stored' <= issued' /\ dead <= dead'
    /\ \/ stored' \in {stored, NoToken} /\ holder' = holder
       \/ holder' = t /\ tab[t].page = "login" /\ UNCHANGED calls

CountMove == sites' \in Listed /\ moves' \in 0..MaxMoves

StepMoves(t) == CallsMove(t) /\ TabMove(t) /\ TokenMove(t) /\ CountMove

LEMMA SameTab ==
    ASSUME TypeOK, NEW t \in Tab, UNCHANGED tab
    PROVE  TabMove(t)
  BY DEF TypeOK, TabMove

LEMMA ShowMoves ==
    ASSUME TypeOK, NEW t \in Tab, NEW page \in Pages, Show(t, page),
           page = "login" => \/ tab[t].page = "login"
                             \/ \A i \in DOMAIN calls'[t] : calls'[t][i].left
    PROVE  TabMove(t) /\ tab'[t].page = page
<1> DEFINE n == [page |-> page, shown |-> Nothing]
<1>1. n \in Tabs /\ n.page = page /\ n.shown = Nothing
  BY DEF Tabs
<1>2. tab' = [tab EXCEPT ![t] = n] /\ tab \in [Tab -> Tabs]
  BY DEF Show, TypeOK
<1> HIDE DEF n
<1>3. tab' \in [Tab -> Tabs] /\ tab'[t] = n /\ \A u \in Tab \ {t} : tab'[u] = tab[u]
  BY <1>1, <1>2
<1>4. ASSUME NEW u \in Tab, tab'[u].page # "sites" PROVE tab'[u].shown = Nothing
  BY <1>1, <1>3, <1>4 DEF TypeOK
<1> QED
  BY <1>1, <1>3, <1>4 DEF TabMove

LEMMA SameToken ==
    ASSUME TypeOK, NEW t \in Tab, stored' \in {stored, NoToken},
           UNCHANGED <<holder, issued, dead>>
    PROVE  TokenMove(t)
  BY StoredFacts, Numbers DEF TypeOK, TokenMove

LEMMA MoveCounts ==
    ASSUME TypeOK, UNCHANGED moves \/ Move, UNCHANGED sites
    PROVE  CountMove
  BY Numbers DEF TypeOK, CountMove, Move

LEMMA PageIsPage ==
    ASSUME NEW page \in {"sites", "other"}
    PROVE  Page(page) \in Pages /\ Page(page) \in {page, "login"}
  BY DEF Page, Pages

LEMMA UserMoves ==
    ASSUME TypeOK, NEW t \in Tab, User(t)
    PROVE  StepMoves(t)
<1>1. CASE Login(t)
  <2>1. /\ tab[t].page = "login" /\ issued < MaxLogins /\ issued' = issued + 1
        /\ stored' = issued + 1 /\ holder' = t /\ Show(t, "sites")
        /\ UNCHANGED <<dead, sites, calls, moves>>
    BY <1>1 DEF Login
  <2>2. TokenMove(t)
    BY <2>1, StoredFacts, Numbers DEF TypeOK, TokenMove
  <2>3. TabMove(t)
    BY <2>1, ShowMoves DEF Pages
  <2> QED
    BY <2>1, <2>2, <2>3, SameCalls, MoveCounts DEF StepMoves
<1>2. CASE Logout(t)
  <2>1. /\ stored' = NoToken /\ Show(t, "login") /\ LeaveCalls(t) /\ Move
        /\ UNCHANGED <<holder, issued, dead, sites>>
    BY <1>2 DEF Logout
  <2>2. CallsMove(t) /\ \A i \in DOMAIN calls'[t] : calls'[t][i].left
    BY <2>1, LeaveMoves
  <2>3. TabMove(t)
    BY <2>1, <2>2, ShowMoves DEF Pages
  <2> QED
    BY <2>1, <2>2, <2>3, SameToken, MoveCounts DEF StepMoves
<1>3. CASE Navigate(t)
  <2>1. /\ LeaveCalls(t) /\ Move /\ UNCHANGED <<stored, holder, issued, dead, sites>>
        /\ Show(t, Page("other")) \/ Show(t, Page("sites"))
    BY <1>3 DEF Navigate
  <2>2. CallsMove(t) /\ \A i \in DOMAIN calls'[t] : calls'[t][i].left
    BY <2>1, LeaveMoves
  <2>3. TabMove(t)
    BY <2>1, <2>2, ShowMoves, PageIsPage
  <2> QED
    BY <2>1, <2>2, <2>3, SameToken, MoveCounts DEF StepMoves
<1>4. CASE Open(t)
  <2>1. /\ DropCalls(t) /\ Move /\ UNCHANGED <<stored, holder, issued, dead, sites>>
        /\ Show(t, Page("sites"))
    BY <1>4 DEF Open
  <2>2. CallsMove(t) /\ \A i \in DOMAIN calls'[t] : calls'[t][i].left
    <3>1. CallsMove(t) /\ calls'[t] = <<>>
      BY <2>1, DropMoves
    <3>2. DOMAIN calls'[t] = {}
      BY <3>1, EmptySeq, SeqFacts
    <3> QED
      BY <3>1, <3>2
  <2>3. TabMove(t)
    BY <2>1, <2>2, ShowMoves, PageIsPage
  <2> QED
    BY <2>1, <2>2, <2>3, SameToken, MoveCounts DEF StepMoves
<1> QED
  BY <1>1, <1>2, <1>3, <1>4 DEF User

LEMMA CallingMoves ==
    ASSUME TypeOK, NEW t \in Tab, Calling(t)
    PROVE  StepMoves(t)
<1>1. CASE refresh(t) \/ Ask(t)
  <2>1. /\ Send(t) /\ tab[t].page \in {"sites", "other"}
        /\ UNCHANGED <<stored, holder, issued, dead, sites, tab, moves>>
    BY <1>1 DEF refresh, Ask, Send
  <2> QED
    BY <2>1, SendMoves, SameTab, SameToken, MoveCounts DEF StepMoves
<1>2. CASE Load(t)
  <2>1. /\ Show(t, "login") /\ DropCalls(t)
        /\ UNCHANGED <<stored, holder, issued, dead, sites, moves>>
    BY <1>2 DEF Load
  <2>2. CallsMove(t) /\ \A i \in DOMAIN calls'[t] : calls'[t][i].left
    <3>1. CallsMove(t) /\ calls'[t] = <<>>
      BY <2>1, DropMoves
    <3>2. DOMAIN calls'[t] = {}
      BY <3>1, EmptySeq, SeqFacts
    <3> QED
      BY <3>1, <3>2
  <2>3. TabMove(t)
    BY <2>1, <2>2, ShowMoves DEF Pages
  <2> QED
    BY <2>1, <2>2, <2>3, SameToken, MoveCounts DEF StepMoves
<1>3. ASSUME NEW i \in DOMAIN calls[t], Serve(t, i)
      PROVE  StepMoves(t)
  BY <1>3, ServeMoves, SameTab, SameToken, MoveCounts DEF Serve, StepMoves
<1>4. ASSUME NEW i \in DOMAIN calls[t], ReceiveList(t, i)
      PROVE  StepMoves(t)
  <2>1. /\ Received(t, i) /\ UNCHANGED <<stored, holder, issued, dead, sites, moves>>
        /\ calls[t][i].answer \in Listed
        /\ \/ UNCHANGED tab
           \/ tab[t].page = "sites" /\ tab' = [tab EXCEPT ![t].shown = calls[t][i].answer]
    BY <1>4 DEF ReceiveList
  <2>2. ASSUME tab[t].page = "sites", tab' = [tab EXCEPT ![t].shown = calls[t][i].answer]
        PROVE  TabMove(t)
    <3> DEFINE n == [tab[t] EXCEPT !.shown = calls[t][i].answer]
    <3>1. tab \in [Tab -> Tabs] /\ tab' = [tab EXCEPT ![t] = n]
      BY <2>2 DEF TypeOK
    <3>2. n \in Tabs /\ n.page = "sites"
      BY <2>1, <2>2, <3>1 DEF Tabs
    <3> HIDE DEF n
    <3>3. tab' \in [Tab -> Tabs] /\ tab'[t] = n /\ \A u \in Tab \ {t} : tab'[u] = tab[u]
      BY <3>1, <3>2
    <3>4. ASSUME NEW u \in Tab, tab'[u].page # "sites" PROVE tab'[u].shown = Nothing
      BY <3>2, <3>3, <3>4 DEF TypeOK
    <3> QED
      BY <3>2, <3>3, <3>4 DEF TabMove
  <2>3. TabMove(t)
    BY <2>1, <2>2, SameTab
  <2> QED
    BY <2>1, <2>3, ReceivedMoves, SameToken, MoveCounts DEF StepMoves
<1>5. ASSUME NEW i \in DOMAIN calls[t], ReceiveUnauthorized(t, i)
      PROVE  StepMoves(t)
  <2>1. /\ Received(t, i) /\ stored' = NoToken /\ UNCHANGED <<holder, issued, dead, sites, moves>>
        /\ UNCHANGED tab \/ Show(t, "leaving")
    BY <1>5 DEF ReceiveUnauthorized
  <2>2. TabMove(t)
    BY <2>1, SameTab, ShowMoves DEF Pages
  <2> QED
    BY <2>1, <2>2, ReceivedMoves, SameToken, MoveCounts DEF StepMoves
<1>6. ASSUME NEW i \in DOMAIN calls[t], ReceiveError(t, i)
      PROVE  StepMoves(t)
  BY <1>6, ReceivedMoves, SameTab, SameToken, MoveCounts DEF ReceiveError, StepMoves
<1> QED
  BY <1>1, <1>2, <1>3, <1>4, <1>5, <1>6 DEF Calling, Receive

LEMMA OtherMoves ==
    ASSUME TypeOK, NEW t \in Tab, Expire \/ Change \/ UNCHANGED vars
    PROVE  StepMoves(t)
<1>1. UNCHANGED <<stored, holder, issued, tab, calls, moves>>
  BY DEF Expire, Change, vars
<1>2. dead' \in 0..issued /\ dead <= dead'
  BY StoredFacts DEF Expire, Change, vars, TypeOK
<1>3. sites' \in Listed
  BY Numbers DEF Expire, Change, vars, TypeOK
<1>4. TokenMove(t) /\ CountMove
  BY <1>1, <1>2, <1>3, StoredFacts, Numbers DEF TypeOK, TokenMove, CountMove
<1> QED
  BY <1>1, <1>4, SameCalls, SameTab DEF StepMoves

\* One tab moves at a time.
LEMMA EveryStep ==
    ASSUME TypeOK, [Next]_vars
    PROVE  \E t \in Tab : StepMoves(t)
<1>1. holder \in Tab
  BY DEF TypeOK
<1> QED
  BY <1>1, UserMoves, CallingMoves, OtherMoves DEF Next

-----------------------------------------------------------------------------
(* The invariants                                                           *)

LEMMA InitHolds == Init => TypeOK /\ SessionsInv
<1> SUFFICES ASSUME Init PROVE TypeOK /\ SessionsInv
  OBVIOUS
<1>1. <<>> \in Seq(Call) /\ Len(<<>>) = 0 /\ DOMAIN <<>> = {}
  BY EmptySeq, SeqFacts
<1>2. calls \in [Tab -> Seq(Call)] /\ \A t \in Tab : calls[t] = <<>>
  BY <1>1 DEF Init
<1>3. [page |-> "login", shown |-> Nothing] \in Tabs
  BY DEF Tabs, Pages
<1>4. tab \in [Tab -> Tabs] /\ \A t \in Tab : tab[t].shown = Nothing
  BY <1>3 DEF Init
<1>5. TypeOK
  BY <1>1, <1>2, <1>4, Numbers DEF Init, TypeOK
<1>6. SessionsInv
  BY <1>1, <1>2 DEF Init, SessionsInv, RefusedAreDead, LoginIsQuiet, HolderSendsStored
<1> QED
  BY <1>5, <1>6

LEMMA TypeStep == ASSUME TypeOK, [Next]_vars PROVE TypeOK'
  BY EveryStep DEF StepMoves, CallsMove, TabMove, TokenMove, CountMove, TypeOK

LEMMA DeadStayDead ==
    ASSUME TypeOK, NEW t \in Tab, TokenMove(t), NEW token \in Nat, ~Valid(token)
    PROVE  ~Valid(token)'
  BY StoredFacts, Numbers DEF TypeOK, TokenMove, Valid

LEMMA InvStep ==
    ASSUME TypeOK, SessionsInv, [Next]_vars
    PROVE  SessionsInv'
<1>1. PICK t \in Tab : StepMoves(t)
  BY EveryStep
<1>2. CallsMove(t) /\ TabMove(t) /\ TokenMove(t) /\ TypeOK'
  BY <1>1, TypeStep DEF StepMoves
<1>3. RefusedAreDead'
  <2> SUFFICES ASSUME NEW u \in Tab, NEW j \in DOMAIN calls'[u],
                      calls'[u][j].answer = Unauthorized
               PROVE  ~(calls'[u][j].token > dead')
    BY DEF RefusedAreDead, Valid
  <2>1. ASSUME NEW q \in Tab, NEW k \in DOMAIN calls[q], ~Valid(calls[q][k].token)
        PROVE  ~(calls[q][k].token > dead')
    <3>1. calls[q][k].token \in Nat
      BY CallsFacts, Numbers DEF Call
    <3> QED
      BY <1>2, <2>1, <3>1, DeadStayDead DEF Valid
  <2>2. CASE u # t
    <3>1. calls'[u] = calls[u]
      BY <1>2, <2>2 DEF CallsMove
    <3> QED
      BY <2>1, <3>1 DEF SessionsInv, RefusedAreDead
  <2>3. CASE u = t
    <3>1. ~Fresh(t, calls'[t][j])
      BY <2>3, Answers DEF Fresh
    <3>2. PICK k \in DOMAIN calls[t] : Follows(calls'[t][j], calls[t][k])
      BY <1>2, <2>3, <3>1 DEF CallsMove
    <3>3. ~Valid(calls[t][k].token) /\ calls'[t][j].token = calls[t][k].token
      BY <2>3, <3>2 DEF Follows, SessionsInv, RefusedAreDead
    <3> QED
      BY <2>1, <2>3, <3>3
  <2> QED
    BY <2>2, <2>3
<1>4. LoginIsQuiet'
  <2> SUFFICES ASSUME NEW u \in Tab, tab'[u].page = "login", NEW j \in DOMAIN calls'[u]
               PROVE  calls'[u][j].left
    BY DEF LoginIsQuiet
  <2>1. CASE u # t
    BY <1>2, <2>1 DEF CallsMove, TabMove, SessionsInv, LoginIsQuiet
  <2>2. CASE u = t /\ tab[t].page = "login"
    <3>1. ~Fresh(t, calls'[t][j])
      BY <2>2 DEF Fresh
    <3>2. PICK k \in DOMAIN calls[t] : Follows(calls'[t][j], calls[t][k])
      BY <1>2, <2>2, <3>1 DEF CallsMove
    <3> QED
      BY <2>2, <3>2 DEF Follows, SessionsInv, LoginIsQuiet
  <2>3. CASE u = t /\ tab[t].page # "login"
    BY <1>2, <2>3 DEF TabMove
  <2> QED
    BY <2>1, <2>2, <2>3
<1>5. HolderSendsStored'
  <2> SUFFICES ASSUME stored' # NoToken, NEW j \in DOMAIN calls'[holder']
               PROVE  calls'[holder'][j].left \/ calls'[holder'][j].token = stored'
    BY DEF HolderSendsStored
  <2>1. CASE holder' = t /\ tab[t].page = "login" /\ UNCHANGED calls
    BY <2>1 DEF SessionsInv, LoginIsQuiet
  <2>2. CASE stored' = stored /\ holder' = holder /\ holder # t
    <3>1. calls'[holder] = calls[holder]
      BY <1>2, <2>2 DEF CallsMove, TypeOK
    <3> QED
      BY <2>2, <3>1 DEF SessionsInv, HolderSendsStored
  <2>3. CASE stored' = stored /\ holder' = holder /\ holder = t
    <3>1. CASE Fresh(t, calls'[t][j])
      BY <2>3, <3>1 DEF Fresh
    <3>2. CASE ~Fresh(t, calls'[t][j])
      <4>1. PICK k \in DOMAIN calls[t] : Follows(calls'[t][j], calls[t][k])
        BY <1>2, <2>3, <3>2 DEF CallsMove
      <4> QED
        BY <2>3, <4>1 DEF Follows, SessionsInv, HolderSendsStored
    <3> QED
      BY <3>1, <3>2
  <2> QED
    BY <1>2, <2>1, <2>2, <2>3 DEF TokenMove
<1> QED
  BY <1>3, <1>4, <1>5 DEF SessionsInv

-----------------------------------------------------------------------------
(* The theorems                                                             *)

LEMMA Inductive == Spec => [](TypeOK /\ SessionsInv)
<1>1. TypeOK /\ SessionsInv /\ [Next]_vars => (TypeOK /\ SessionsInv)'
  BY TypeStep, InvStep
<1> QED
  BY <1>1, InitHolds, PTL DEF Spec

\* Every variable keeps its type, and only the list page has a list: what comes
\* for a page that was left is not kept for the next (refresh of SitesList).
THEOREM TypeCorrect == Spec => []TypeOK
  BY Inductive, PTL

LEMMA LogoutStep ==
    ASSUME TypeOK, SessionsInv, [Next]_vars, Valid(stored), stored' = NoToken
    PROVE  \/ \E t \in Tab : tab[t].page \in {"sites", "other"} /\ tab'[t].page = "login"
           \/ \E t \in Tab : \E i \in DOMAIN calls[t] :
                  /\ calls[t][i].answer = Unauthorized /\ Len(calls'[t]) < Len(calls[t])
                  /\ calls[t][i].token # stored
                  /\ t # holder \/ calls[t][i].left
<1>1. stored # NoToken /\ stored' # stored
  BY StoredFacts
<1>2. \A t \in Tab : ~Login(t)
  BY StoredFacts, Numbers DEF Login
<1>3. PICK t \in Tab : Logout(t) \/ \E i \in DOMAIN calls[t] : ReceiveUnauthorized(t, i)
  BY <1>1, <1>2 DEF Next, User, Navigate, Open, Calling, refresh, Ask, Send, Load, Serve,
                    Receive, ReceiveList, ReceiveError, Expire, Change, vars
<1>4. CASE Logout(t)
  <2>1. tab[t].page \in {"sites", "other"} /\ tab'[t].page = "login"
    BY <1>4 DEF Logout, Show, TypeOK
  <2> QED
    BY <2>1
<1>5. CASE \E i \in DOMAIN calls[t] : ReceiveUnauthorized(t, i)
  <2>1. PICK i \in DOMAIN calls[t] : ReceiveUnauthorized(t, i)
    BY <1>5
  <2>2. calls[t][i].answer = Unauthorized /\ Received(t, i)
    BY <2>1 DEF ReceiveUnauthorized
  <2>3. Len(calls'[t]) < Len(calls[t])
    BY <2>2, ReceivedMoves
  <2>4. calls[t][i].token # stored
    BY <2>2 DEF SessionsInv, RefusedAreDead
  <2>5. t # holder \/ calls[t][i].left
    BY <1>1, <2>4 DEF SessionsInv, HolderSendsStored
  <2> QED
    BY <2>2, <2>3, <2>4, <2>5
<1> QED
  BY <1>3, <1>4, <1>5

\* Without a logout, a valid login is taken away only by a late 401, to a call with
\* another token (the interceptors of client.ts).
THEOREM OnlyLateAnswers == Spec => OnlyLateAnswersLogOut
<1>1. TypeOK /\ SessionsInv /\ [Next]_vars =>
        [ Valid(stored) /\ stored' = NoToken =>
          \/ \E t \in Tab : tab[t].page \in {"sites", "other"} /\ tab'[t].page = "login"
          \/ \E t \in Tab : \E i \in DOMAIN calls[t] :
                 /\ calls[t][i].answer = Unauthorized /\ Len(calls'[t]) < Len(calls[t])
                 /\ calls[t][i].token # stored
                 /\ t # holder \/ calls[t][i].left ]_vars
  BY LogoutStep
<1> QED
  BY <1>1, Inductive, PTL DEF Spec, OnlyLateAnswersLogOut
=============================================================================
