---------------------------- MODULE ReviewProofs ----------------------------
(***************************************************************************)
(* The risk workbench of a task, for any findings, views, orders and       *)
(* numbers of decisions and faults.                                        *)
(*                                                                         *)
(* The three orders of the list are strict total orders, so that a list    *)
(* has one top, to which a selection that has left the list moves.         *)
(*                                                                         *)
(* Whatever an entry of the cache holds, shown or on its way, differs from *)
(* the server only in paragraphs whose decision has been answered and has  *)
(* yet to refresh the entry; and a finding is handled only after its       *)
(* operation is recorded, so that the two reads of the history panel       *)
(* disagree only when a decision comes between them.                       *)
(***************************************************************************)
EXTENDS ReviewPage, TLAPS, FiniteSetTheorems

LEMMA PriorityIsNumber ==
  ASSUME NEW handling \in Handling
  PROVE  Priority(handling) \in 1..4
BY DEF Handling, Priority

LEMMA ScoreOrder ==
  /\ \A p \in Paragraph : ~ByScore(p, p)
  /\ \A p, q \in Paragraph : p # q => ByScore(p, q) \/ ByScore(q, p)
  /\ \A p, q, r \in Paragraph : ByScore(p, q) /\ ByScore(q, r) => ByScore(p, r)
<1> USE RiskOrderAssumption DEF ByScore, ByParagraph
<1>1. ASSUME NEW p \in Paragraph
      PROVE  ~ByScore(p, p)
  <2>1. Score[p] \in Int /\ Position[p] \in Int
    OBVIOUS
  <2> QED
    BY <2>1
<1>2. \A p, q \in Paragraph : p # q => ByScore(p, q) \/ ByScore(q, p)
  OBVIOUS
<1>3. ASSUME NEW p \in Paragraph, NEW q \in Paragraph, NEW r \in Paragraph,
             ByScore(p, q), ByScore(q, r)
      PROVE  ByScore(p, r)
  BY <1>3
<1> QED
  BY <1>1, <1>2, <1>3

LEMMA RecommendedOrder ==
  ASSUME NEW handled \in [Paragraph -> Handling]
  PROVE  /\ \A p \in Paragraph : ~Recommended(handled, p, p)
         /\ \A p, q \in Paragraph :
              p # q => Recommended(handled, p, q) \/ Recommended(handled, q, p)
         /\ \A p, q, r \in Paragraph :
              Recommended(handled, p, q) /\ Recommended(handled, q, r) =>
                Recommended(handled, p, r)
<1> DEFINE Rank(p) == Priority(handled[p])
<1>1. ASSUME NEW p \in Paragraph
      PROVE  Rank(p) \in Int /\ Level[p] \in Int
  <2>1. handled[p] \in Handling
    OBVIOUS
  <2>2. Rank(p) \in 1..4
    BY <2>1, PriorityIsNumber
  <2> QED
    BY <2>2, RiskOrderAssumption
<1>2. \A p, q \in Paragraph :
        Recommended(handled, p, q) <=>
          \/ Level[p] > Level[q]
          \/ Level[p] = Level[q] /\ Rank(p) > Rank(q)
          \/ Level[p] = Level[q] /\ Rank(p) = Rank(q) /\ ByScore(p, q)
  BY DEF Recommended
<1> HIDE DEF Rank
<1>3. ASSUME NEW p \in Paragraph
      PROVE  ~Recommended(handled, p, p)
  <2>1. ~ByScore(p, p)
    BY ScoreOrder
  <2>2. ~(Level[p] > Level[p]) /\ ~(Rank(p) > Rank(p))
    BY <1>1
  <2> QED
    BY <2>1, <2>2, <1>2
<1>4. \A p, q \in Paragraph :
        p # q => Recommended(handled, p, q) \/ Recommended(handled, q, p)
  BY <1>1, <1>2, ScoreOrder
<1>5. ASSUME NEW p \in Paragraph, NEW q \in Paragraph, NEW r \in Paragraph,
             Recommended(handled, p, q), Recommended(handled, q, r)
      PROVE  Recommended(handled, p, r)
  <2>1. CASE Level[p] = Level[q] /\ Rank(p) = Rank(q)
             /\ Level[q] = Level[r] /\ Rank(q) = Rank(r)
    BY <2>1, <1>1, <1>2, <1>5, ScoreOrder
  <2>2. CASE ~(Level[p] = Level[q] /\ Rank(p) = Rank(q)
               /\ Level[q] = Level[r] /\ Rank(q) = Rank(r))
    BY <2>2, <1>1, <1>2, <1>5
  <2> QED
    BY <2>1, <2>2
<1> QED
  BY <1>3, <1>4, <1>5

(***************************************************************************)
(* sortRiskFindings compares with a strict total order, in each of its     *)
(* modes: what it returns depends on its findings only, and not on the     *)
(* order in which the store, or a set of files, delivers them.             *)
(***************************************************************************)
THEOREM OrderIsTotal ==
  ASSUME NEW mode \in SortMode, NEW handled \in [Paragraph -> Handling]
  PROVE  /\ \A p \in Paragraph : ~Before(mode, handled, p, p)
         /\ \A p, q \in Paragraph :
              p # q => Before(mode, handled, p, q) \/ Before(mode, handled, q, p)
         /\ \A p, q, r \in Paragraph :
              Before(mode, handled, p, q) /\ Before(mode, handled, q, r) =>
                Before(mode, handled, p, r)
<1>1. CASE mode = "paragraph_asc"
  <2>1. \A p, q \in Paragraph : Before(mode, handled, p, q) <=> ByParagraph(p, q)
    BY <1>1 DEF Before
  <2> QED
    BY <2>1, RiskOrderAssumption DEF ByParagraph
<1>2. CASE mode = "score_desc"
  <2>1. \A p, q \in Paragraph : Before(mode, handled, p, q) <=> ByScore(p, q)
    BY <1>2 DEF Before
  <2> QED
    BY <2>1, ScoreOrder
<1>3. CASE mode = "recommended"
  <2>1. \A p, q \in Paragraph :
          Before(mode, handled, p, q) <=> Recommended(handled, p, q)
    BY <1>3 DEF Before
  <2> QED
    BY <2>1, RecommendedOrder
<1> QED
  BY <1>1, <1>2, <1>3 DEF SortMode

(***************************************************************************)
(* The finding the page selects when its own choice has left the list is   *)
(* determined: no two findings are at the top of one list.                 *)
(***************************************************************************)
THEOREM TopIsUnique ==
  ASSUME NEW mode \in SortMode, NEW handled \in [Paragraph -> Handling],
         NEW S \in SUBSET Paragraph, NEW p \in S, IsTop(mode, handled, S, p)
  PROVE  Top(mode, handled, S) = p
<1>1. PICK q \in S : q = Top(mode, handled, S) /\ IsTop(mode, handled, S, q)
  BY DEF Top
<1>2. ASSUME q # p
      PROVE  FALSE
  <2>1. Before(mode, handled, p, q) /\ Before(mode, handled, q, p)
    BY <1>1, <1>2 DEF IsTop
  <2>2. Before(mode, handled, p, p)
    BY <2>1, OrderIsTotal
  <2> QED
    BY <2>2, OrderIsTotal
<1> QED
  BY <1>1, <1>2

(***************************************************************************)
(* A list that is not empty has a top, and Top picks it: when the chosen   *)
(* finding has left the list, or has been decided on, the page always      *)
(* finds the one to go on with.                                            *)
(***************************************************************************)
THEOREM ListHasTop ==
  ASSUME NEW mode \in SortMode, NEW handled \in [Paragraph -> Handling],
         NEW S \in SUBSET Paragraph, S # {}
  PROVE  IsTop(mode, handled, S, Top(mode, handled, S))
<1> DEFINE Under(p) == {q \in S : Before(mode, handled, q, p)}
           T == {Under(p) : p \in S}
<1>1. IsWellFoundedOn(StrictSubsetOrdering(Paragraph), SUBSET Paragraph)
  BY FS_StrictSubsetOrderingWellFounded, FS_FiniteSubsetsOfFinite, RiskOrderAssumption
<1>2. T \subseteq SUBSET Paragraph /\ T # {}
  OBVIOUS
<1>3. \E x \in T : \A y \in T : ~(<<y, x>> \in StrictSubsetOrdering(Paragraph))
  <2> HIDE DEF T
  <2> QED
    BY <1>1, <1>2, WFMin
<1>4. PICK p \in S : \A q \in S :
        ~(<<Under(q), Under(p)>> \in StrictSubsetOrdering(Paragraph))
  BY <1>3
<1>5. ASSUME NEW q \in S, Before(mode, handled, q, p)
      PROVE  FALSE
  <2>1. Under(q) \subseteq Under(p)
    BY <1>5, OrderIsTotal
  <2>2. q \in Under(p) /\ q \notin Under(q)
    BY <1>5, OrderIsTotal
  <2>3. Under(q) \in SUBSET Paragraph /\ Under(p) \in SUBSET Paragraph
    OBVIOUS
  <2>4. <<Under(q), Under(p)>> \in StrictSubsetOrdering(Paragraph)
    <3> HIDE DEF Under
    <3> QED
      BY <2>1, <2>2, <2>3 DEF StrictSubsetOrdering
  <2> QED
    BY <2>4, <1>4
<1>6. IsTop(mode, handled, S, p)
  BY <1>5, OrderIsTotal DEF IsTop
<1> QED
  BY <1>6 DEF Top

-----------------------------------------------------------------------------
(* Types *)

Entry == [data : Answers, fetch : {"idle", "sent", "answered"},
          answer : Answers, sound : BOOLEAN]

Panel == [fetch : {"idle", "sent", "findings", "operations"},
          loaded : BOOLEAN, met : BOOLEAN, read : SUBSET Paragraph]

ActivePc == {"sent", "recorded", "answered"}

DeedRecord == [pc : ActivePc, kind : Kind, paragraph : Paragraph]

Deeds == {Deed("none"), Deed("over")} \cup DeedRecord

ServerInv ==
  /\ ready \in BOOLEAN
  /\ status \in [Paragraph -> Handling]
  /\ last \in [Paragraph -> Kind \cup {"none"}]

ViewInv ==
  /\ filter \in View
  /\ selected \in Paragraph \cup {NoParagraph}
  /\ list \in [View -> Entry]
  /\ history \in Panel

\* The bar waits for a decision that is under way.
BarInv ==
  /\ deed \in [Decision -> Deeds]
  /\ busy \in Decision \cup {NoDecision}
  /\ busy # NoDecision => deed[busy].pc \in ActivePc

TypeInv == ServerInv /\ ViewInv /\ BarInv /\ extras \in 0..MaxExtras

LEMMA TypeInvImpliesTypeOK == TypeInv => TypeOK
  BY DEF TypeInv, TypeOK, ServerInv, ViewInv, BarInv, Entry, Panel, ActivePc,
     DeedRecord, Deeds

LEMMA OutcomeType ==
  ASSUME NEW kind \in Kind \cup {"none"}
  PROVE  Outcome(kind) \in Handling /\ (Outcome(kind) # "pending" => kind # "none")
  BY ReviewPageAssumption DEF Outcome, Handling

LEMMA NothingType == Nothing \in Answers /\ NoEntry \in Entry /\ NoHistory \in Panel
  BY DEF Nothing, Untouched, Answers, NoEntry, Entry, NoHistory, Panel, Handling

\* What the query client does to an entry leaves an entry.
LEMMA EntryTypes ==
  ASSUME NEW entry \in Entry
  PROVE  /\ Start(entry) \in Entry /\ Mounted(entry) \in Entry
         /\ Unsound(entry) \in Entry /\ Refetched(entry) \in Entry
         /\ Failed(entry) \in Entry
  <1>1. Start(entry) \in Entry
    BY NothingType DEF Start, Entry
  <1>2. \A e \in Entry : Unsound(e) \in Entry
    BY DEF Unsound, Entry
  <1>3. [NoEntry EXCEPT !.data = entry.data] \in Entry
    BY NothingType DEF Entry
  <1> QED BY <1>1, <1>2, <1>3 DEF Mounted, Refetched, Failed

\* A view shows paragraphs with a finding.
LEMMA ListedType ==
  ASSUME NEW v, NEW data
  PROVE  Listed(v, data) \in SUBSET Paragraph
  BY DEF Listed

LEMMA TurnToType ==
  ASSUME TypeInv, NEW p \in Paragraph \cup {NoParagraph}, TurnTo(p)
  PROVE  /\ selected' \in Paragraph \cup {NoParagraph}
         /\ history' \in Panel
         /\ busy' \in {busy, NoDecision}
  <1>1. [NoHistory EXCEPT !.fetch = "sent"] \in Panel
    BY NothingType DEF Panel
  <1> QED BY <1>1, NothingType DEF TurnTo, TypeInv, ViewInv

\* The next paragraph that is selected is one of the task's.
LEMMA ReselectTurns ==
  ASSUME TypeInv, filter' \in View, list' \in [View -> Entry], Reselect
  PROVE  \E p \in Paragraph \cup {NoParagraph} : TurnTo(p)
  <1> DEFINE data == list'[filter'].data
             listed == Listed(filter', data)
  <1>1. data.items \in [Paragraph -> Handling]
    BY DEF Entry, Answers
  <1>2. Order[filter'] \in SortMode
    BY ReviewPageAssumption
  <1>3. listed \in SUBSET Paragraph
    BY ListedType
  <1>4. listed # {} => Top(Order[filter'], data.items, listed) \in Paragraph
    <2> HIDE DEF data, listed
    <2> QED BY <1>1, <1>2, <1>3, ListHasTop DEF IsTop
  <1>5. \/ TurnTo(NoParagraph) \/ TurnTo(selected)
        \/ listed # {} /\ TurnTo(Top(Order[filter'], data.items, listed))
    BY DEF Reselect
  <1> QED BY <1>4, <1>5 DEF TypeInv, ViewInv

\* A decision that waits, goes on or ends; the bar waits for no other.
LEMMA BarKept ==
  ASSUME BarInv, UNCHANGED deed, busy' \in {busy, NoDecision}
  PROVE  BarInv'
  BY DEF BarInv

LEMMA ExtraType ==
  ASSUME TypeInv, Extra
  PROVE  extras' \in 0..MaxExtras
  BY ReviewPageAssumption DEF TypeInv, Extra

LEMMA EndsType ==
  ASSUME BarInv, NEW d \in Decision, Ends(d)
  PROVE  BarInv'
  <1>1. deed' \in [Decision -> Deeds]
    BY DEF Ends, BarInv, Deeds
  <1>2. busy' \in {busy, NoDecision} /\ (busy' # NoDecision => busy' = busy /\ busy # d)
    BY DEF Ends, BarInv
  <1>3. \A e \in Decision \ {d} : deed'[e] = deed[e]
    BY DEF Ends, BarInv
  <1> QED BY <1>1, <1>2, <1>3 DEF BarInv

LEMMA GoesOnType ==
  ASSUME BarInv, NEW d \in Decision, deed[d].pc \in ActivePc, NEW pc \in ActivePc,
         deed' = [deed EXCEPT ![d].pc = pc], UNCHANGED busy
  PROVE  BarInv'
  <1>1. deed[d] \in DeedRecord
    BY DEF BarInv, Deeds, Deed, ActivePc
  <1>2. deed'[d] \in DeedRecord /\ deed'[d].pc = pc
    BY <1>1 DEF BarInv, DeedRecord
  <1>3. \A e \in Decision \ {d} : deed'[e] = deed[e]
    BY DEF BarInv
  <1>4. deed' \in [Decision -> Deeds]
    BY <1>2, <1>3 DEF BarInv, Deeds
  <1> QED BY <1>2, <1>3, <1>4 DEF BarInv

LEMMA TypeInit == Init => TypeInv
  <1> SUFFICES ASSUME Init PROVE TypeInv
    OBVIOUS
  <1>1. ServerInv
    <2>1. last \in [Paragraph -> Kind \cup {"none"}]
      BY ReviewPageAssumption DEF Init
    <2>2. status \in [Paragraph -> Handling]
      BY <2>1, OutcomeType DEF Init
    <2> QED BY <2>1, <2>2 DEF Init, ServerInv
  <1>2. ViewInv
    <2>1. [[v \in View |-> NoEntry] EXCEPT ![FirstView].fetch = "sent"] \in [View -> Entry]
      BY NothingType DEF Entry
    <2> QED BY <2>1, NothingType, ReviewPageAssumption DEF Init, ViewInv
  <1>3. BarInv
    BY DEF Init, BarInv, Deeds
  <1> QED BY <1>1, <1>2, <1>3, ReviewPageAssumption DEF Init, TypeInv

LEMMA ListStepType ==
  ASSUME TypeInv, NEW v \in View, Reads(v) \/ ListLost(v)
  PROVE  TypeInv'
  <1>1. CurrentAnswer \in Answers
    BY DEF CurrentAnswer, Answers, TypeInv, ServerInv, Untouched, Handling
  <1>2. list[v] \in Entry
    BY DEF TypeInv, ViewInv
  <1>3. CASE ListAnswered(v)
    <2>1. list' \in [View -> Entry]
      BY <1>1, <1>2, <1>3 DEF ListAnswered, TypeInv, ViewInv, Entry
    <2> QED BY <2>1, <1>3 DEF ListAnswered, server, TypeInv, ServerInv, ViewInv, BarInv
  <1>4. ASSUME list' \in [View -> Entry], UNCHANGED <<server, filter, deed>>, Reselect,
               extras' \in 0..MaxExtras
        PROVE  TypeInv'
    <2>1. PICK p \in Paragraph \cup {NoParagraph} : TurnTo(p)
      BY <1>4, ReselectTurns DEF TypeInv, ViewInv
    <2>2. ViewInv'
      BY <2>1, <1>4, TurnToType DEF TypeInv, ViewInv
    <2>3. BarInv'
      BY <2>1, <1>4, TurnToType, BarKept DEF TypeInv
    <2> QED BY <2>2, <2>3, <1>4 DEF TypeInv, ServerInv, server
  <1>5. CASE ListShown(v)
    <2>1. list' \in [View -> Entry]
      BY <1>2, <1>5, NothingType DEF ListShown, TypeInv, ViewInv, Entry
    <2> QED BY <2>1, <1>4, <1>5 DEF ListShown, TypeInv
  <1>6. CASE ListLost(v)
    <2>1. list' \in [View -> Entry]
      BY <1>2, <1>6, EntryTypes DEF ListLost, TypeInv, ViewInv
    <2> QED BY <2>1, <1>4, <1>6, ExtraType DEF ListLost
  <1> QED BY <1>3, <1>5, <1>6 DEF Reads

LEMMA UserType ==
  ASSUME TypeInv, User
  PROVE  TypeInv'
  <1> USE DEF TypeInv, ViewInv
  <1>1. ASSUME NEW p \in Paragraph \cup {NoParagraph}, TurnTo(p),
               UNCHANGED <<server, filter, list, deed, extras>>
        PROVE  TypeInv'
    <2>1. BarInv'
      BY <1>1, TurnToType, BarKept
    <2> QED BY <2>1, <1>1, TurnToType DEF ServerInv, server
  <1>2. ASSUME NEW v \in View, ChooseView(v) PROVE TypeInv'
    <2>1. list' \in [View -> Entry] /\ filter' \in View
      BY <1>2, EntryTypes DEF ChooseView
    <2>2. PICK p \in Paragraph \cup {NoParagraph} : TurnTo(p)
      BY <1>2, <2>1, ReselectTurns DEF ChooseView
    <2>3. BarInv'
      BY <1>2, <2>2, TurnToType, BarKept DEF ChooseView
    <2> QED BY <1>2, <2>1, <2>2, <2>3, TurnToType DEF ChooseView, ServerInv, server
  <1>3. ASSUME NEW p \in Paragraph, Select(p) PROVE TypeInv'
    BY <1>1, <1>3 DEF Select
  <1>4. ASSUME NEW d \in Decision, NEW kind \in Kind, Decide(d, kind) PROVE TypeInv'
    <2>1. selected \in Paragraph
      BY <1>4, ListedType DEF Decide, Shown
    <2>2. [pc |-> "sent", kind |-> kind, paragraph |-> selected] \in DeedRecord
      BY <2>1 DEF DeedRecord, ActivePc
    <2>3. BarInv'
      BY <1>4, <2>2 DEF Decide, BarInv, Deeds, ActivePc
    <2> QED BY <1>4, <2>3 DEF Decide, ServerInv, server
  <1>5. CASE Continue
    <2> DEFINE data == list[filter].data
               next == {p \in Shown \ {selected} : data.items[p] = "pending"}
    <2>1. data.items \in [Paragraph -> Handling] /\ Order[filter] \in SortMode
      BY ReviewPageAssumption DEF Entry, Answers
    <2>2. next \in SUBSET Paragraph
      BY ListedType DEF Shown
    <2>3. next # {} /\ TurnTo(Top(Order[filter], data.items, next))
      BY <1>5 DEF Continue
    <2>4. Top(Order[filter], data.items, next) \in Paragraph
      <3> HIDE DEF data, next
      <3> QED BY <2>1, <2>2, <2>3, ListHasTop DEF IsTop
    <2> QED BY <1>1, <1>5, <2>3, <2>4 DEF Continue
  <1>6. CASE RefreshList
    <2>1. list' \in [View -> Entry]
      BY <1>6, EntryTypes DEF RefreshList
    <2> QED BY <2>1, <1>6, ExtraType DEF RefreshList, ServerInv, BarInv, server
  <1> QED BY <1>2, <1>3, <1>4, <1>5, <1>6 DEF User

LEMMA MeetsType ==
  ASSUME TypeInv
  PROVE  Meets \in Panel
  BY DEF TypeInv, ViewInv, Panel, Meets

LEMMA DecidesType ==
  ASSUME TypeInv, NEW d \in Decision, Decides(d)
  PROVE  TypeInv'
  <1> USE DEF TypeInv, ViewInv
  <1>1. \A v \in View : list[v] \in Entry
    OBVIOUS
  <1>2. deed[d].pc \in ActivePc
    BY DEF Decides, Recorded, DecisionRefused, Updated, Refresh, DecisionLost, ActivePc
  <1>3. deed[d].kind \in Kind /\ deed[d].paragraph \in Paragraph
    BY <1>2 DEF BarInv, Deeds, Deed, DeedRecord, ActivePc
  <1>4. CASE Recorded(d)
    <2>1. BarInv'
      BY <1>2, <1>4, GoesOnType DEF Recorded, ActivePc
    <2>2. ServerInv'
      BY <1>3, <1>4 DEF Recorded, ServerInv
    <2> QED BY <1>4, <2>1, <2>2, MeetsType DEF Recorded
  <1>5. CASE Updated(d)
    <2>1. BarInv'
      BY <1>2, <1>5, GoesOnType DEF Updated, ActivePc
    <2>2. ServerInv'
      BY <1>3, <1>5, OutcomeType DEF Updated, ServerInv
    <2> QED BY <1>5, <2>1, <2>2, MeetsType DEF Updated
  <1>6. CASE Refresh(d)
    <2>1. BarInv'
      BY <1>6, EndsType DEF Refresh
    <2>2. list' \in [View -> Entry]
      BY <1>1, <1>6, EntryTypes DEF Refresh
    <2>3. history' \in Panel
      <3>1. [NoHistory EXCEPT !.fetch = "sent", !.loaded = history.loaded] \in Panel
        BY NothingType DEF Panel
      <3> QED BY <1>6, <3>1 DEF Refresh
    <2> QED BY <1>6, <2>1, <2>2, <2>3 DEF Refresh, ServerInv, server
  <1>7. ASSUME FailsToEnd(d), UNCHANGED <<server, filter, selected, history>>,
               extras' \in 0..MaxExtras
        PROVE  TypeInv'
    <2>1. BarInv'
      BY <1>7, EndsType DEF FailsToEnd
    <2>2. list' \in [View -> Entry]
      BY <1>1, <1>7, EntryTypes DEF FailsToEnd
    <2> QED BY <1>7, <2>1, <2>2 DEF ServerInv, server
  <1>8. CASE DecisionRefused(d)
    BY <1>7, <1>8 DEF DecisionRefused
  <1>9. CASE DecisionLost(d)
    BY <1>7, <1>9, ExtraType DEF DecisionLost
  <1> QED BY <1>4, <1>5, <1>6, <1>8, <1>9 DEF Decides

LEMMA NextType ==
  ASSUME TypeInv, [Next]_vars
  PROVE  TypeInv'
  <1>1. CASE UNCHANGED vars
    BY <1>1 DEF vars, server, TypeInv, ServerInv, ViewInv, BarInv
  <1>2. CASE Complete
    BY <1>2 DEF Complete, TypeInv, ServerInv, ViewInv, BarInv
  <1>3. CASE ListTick
    <2>1. list' \in [View -> Entry]
      BY <1>3, EntryTypes DEF ListTick, TypeInv, ViewInv
    <2> QED BY <1>3, <2>1 DEF ListTick, server, TypeInv, ServerInv, ViewInv, BarInv
  <1>4. CASE HistoryReads
    <2>1. history' \in Panel
      BY <1>4 DEF HistoryReads, ReadFirst, ReadSecond, Processed, Operated,
         TypeInv, ViewInv, Panel
    <2> QED BY <1>4, <2>1 DEF HistoryReads, server, TypeInv, ServerInv, ViewInv, BarInv
  <1>5. CASE HistoryLost
    BY <1>5, NothingType, ExtraType
       DEF HistoryLost, server, TypeInv, ServerInv, ViewInv, BarInv
  <1> QED BY <1>1, <1>2, <1>3, <1>4, <1>5, UserType, DecidesType, ListStepType DEF Next

LEMMA AlwaysTypes == Spec => []TypeInv
  <1>1. TypeInv /\ [Next]_vars => TypeInv'
    BY NextType
  <1> QED BY <1>1, TypeInit, PTL DEF Spec

(***************************************************************************)
(* The page, its cache and the server keep their types; in particular the  *)
(* page always finds a finding to select when its own has left a list that *)
(* is not empty, and the bar waits only for a decision under way.          *)
(***************************************************************************)
THEOREM PageTypeCorrect == Spec => []TypeOK
  BY AlwaysTypes, TypeInvImpliesTypeOK, PTL

-----------------------------------------------------------------------------
(* The list.  An entry misses at most what an answered decision did that   *)
(* has yet to refresh it.                                                  *)

\* A decision on p has been answered: its refresh is still to come.
Awaited(p) == \E d \in Decision : deed[d].pc = "answered" /\ deed[d].paragraph = p

\* What an entry holds agrees with the server.
Agrees(held) ==
  held.state = "ready" =>
    /\ ready
    /\ \A p \in Paragraph : held.items[p] = status[p] \/ Awaited(p)

EntryInv(entry) ==
  entry.sound =>
    /\ entry.fetch = "idle" => Agrees(entry.data)
    /\ entry.fetch = "answered" => Agrees(entry.answer)

CacheInv == \A v \in View : EntryInv(list[v])

\* Where an entry that was sound fits again after a step of the query client.
LEMMA EntryOperations ==
  ASSUME NEW entry \in Entry
  PROVE  /\ EntryInv(NoEntry)
         /\ EntryInv(Start(entry))
         /\ EntryInv(Unsound(entry))
         /\ EntryInv(Refetched(entry))
         /\ EntryInv(Failed(entry))
         /\ EntryInv(entry) => EntryInv(Mounted(entry))
  <1> USE DEF EntryInv
  <1>1. EntryInv(NoEntry)
    BY DEF NoEntry, Agrees, Nothing
  <1>2. EntryInv(Start(entry))
    BY DEF Start, Entry
  <1>3. \A e \in Entry : EntryInv(Unsound(e))
    BY <1>1 DEF Unsound, Entry
  <1>4. [NoEntry EXCEPT !.data = entry.data] \in Entry
    BY NothingType DEF Entry
  <1> QED BY <1>1, <1>2, <1>3, <1>4 DEF Refetched, Failed, Mounted

\* While no status changes and no refresh is dropped, entries stay in agreement.
LEMMA AgreesStays ==
  ASSUME ready => ready', UNCHANGED status,
         \A p \in Paragraph : Awaited(p) => Awaited(p)'
  PROVE  /\ \A held : Agrees(held) => Agrees(held)'
         /\ \A entry : EntryInv(entry) => EntryInv(entry)'
  BY DEF Agrees, EntryInv

LEMMA AwaitedStays ==
  ASSUME NEW d \in Decision, deed[d].pc # "answered",
         \A e \in Decision \ {d} : deed'[e] = deed[e]
  PROVE  \A p \in Paragraph : Awaited(p) => Awaited(p)'
  BY DEF Awaited

LEMMA ReadsCache ==
  ASSUME TypeInv, CacheInv, NEW v \in View, Reads(v) \/ ListLost(v)
  PROVE  CacheInv'
  <1>1. UNCHANGED <<ready, status, deed>>
    BY DEF Reads, ListAnswered, ListShown, ListLost, server
  <1>2. \A entry : EntryInv(entry)' <=> EntryInv(entry)
    BY <1>1 DEF EntryInv, Agrees, Awaited
  <1>3. \A u \in View : list[u] \in Entry /\ EntryInv(list[u])
    BY DEF TypeInv, ViewInv, CacheInv
  <1>4. \A u \in View \ {v} : list'[u] = list[u]
    BY DEF Reads, ListAnswered, ListShown, ListLost, TypeInv, ViewInv
  <1>5. EntryInv(list'[v])
    <2>1. CASE ListAnswered(v)
      <3>1. list'[v].fetch = "answered" /\ list'[v].answer = CurrentAnswer
        BY <1>3, <2>1 DEF ListAnswered, TypeInv, ViewInv, Entry
      <3>2. Agrees(CurrentAnswer)
        BY DEF CurrentAnswer, Agrees
      <3> QED BY <3>1, <3>2 DEF EntryInv
    <2>2. CASE ListShown(v)
      <3>1. /\ list'[v].fetch = "idle" /\ list'[v].data = list[v].answer
            /\ list'[v].sound = list[v].sound
        BY <1>3, <2>2 DEF ListShown, TypeInv, ViewInv, Entry
      <3> QED BY <1>3, <2>2, <3>1 DEF ListShown, EntryInv
    <2>3. CASE ListLost(v)
      <3>1. list'[v] = Failed(list[v])
        BY <2>3 DEF ListLost, TypeInv, ViewInv
      <3> QED BY <1>3, <3>1, EntryOperations
    <2> QED BY <2>1, <2>2, <2>3 DEF Reads
  <1> QED BY <1>2, <1>3, <1>4, <1>5 DEF CacheInv

LEMMA DecidesCache ==
  ASSUME TypeInv, CacheInv, NEW d \in Decision, Decides(d)
  PROVE  CacheInv'
  <1>1. \A v \in View : list[v] \in Entry /\ EntryInv(list[v])
    BY DEF TypeInv, ViewInv, CacheInv
  <1>2. ASSUME FailsToEnd(d) PROVE CacheInv'
    <2>1. \A v \in View : list'[v] = Unsound(list[v])
      BY <1>2 DEF FailsToEnd
    <2>2. \A v \in View : list'[v].sound = FALSE \/ list'[v] = NoEntry
      BY <1>1, <2>1 DEF Unsound, Entry
    <2> QED BY <2>2 DEF CacheInv, EntryInv, Agrees, NoEntry, Nothing
  <1>3. CASE Recorded(d)
    <2>1. UNCHANGED <<ready, status, list>>
      BY <1>3 DEF Recorded
    <2>2. deed[d].pc = "sent" /\ \A e \in Decision \ {d} : deed'[e] = deed[e]
      BY <1>3 DEF Recorded, TypeInv, BarInv
    <2> QED BY <1>1, <2>1, <2>2, AwaitedStays, AgreesStays DEF CacheInv
  <1>4. CASE Updated(d)
    <2>0. PICK q : q = deed[d].paragraph
      OBVIOUS
    <2>1. deed[d].pc = "recorded" /\ UNCHANGED <<ready, list>>
      BY <1>4 DEF Updated
    <2>2. deed[d] \in DeedRecord
      BY <2>1 DEF TypeInv, BarInv, Deeds, Deed
    <2>3. deed'[d].pc = "answered" /\ deed'[d].paragraph = q
      BY <1>4, <2>0, <2>2 DEF Updated, TypeInv, BarInv, DeedRecord
    <2>4. \A e \in Decision \ {d} : deed'[e] = deed[e]
      BY <1>4 DEF Updated, TypeInv, BarInv
    <2>5. Awaited(q)' /\ \A p \in Paragraph : Awaited(p) => Awaited(p)'
      BY <2>1, <2>3, <2>4 DEF Awaited
    <2>6. \A p \in Paragraph \ {q} : status'[p] = status[p]
      BY <1>4, <2>0 DEF Updated, TypeInv, ServerInv
    <2>7. \A held : Agrees(held) => Agrees(held)'
      BY <2>1, <2>5, <2>6 DEF Agrees
    <2> QED BY <1>1, <2>1, <2>7 DEF CacheInv, EntryInv
  <1>5. CASE Refresh(d)
    <2>1. \A v \in View : list'[v] \in {Refetched(list[v]), Unsound(list[v])}
      BY <1>5 DEF Refresh
    <2>2. \A v \in View : \/ list'[v].sound = FALSE \/ list'[v] = NoEntry
                          \/ list'[v].fetch = "sent"
      BY <1>1, <2>1 DEF Refetched, Start, Unsound, Entry
    <2> QED BY <2>2 DEF CacheInv, EntryInv, Agrees, NoEntry, Nothing
  <1> QED BY <1>2, <1>3, <1>4, <1>5 DEF Decides, DecisionRefused, DecisionLost

LEMMA UserCache ==
  ASSUME TypeInv, CacheInv, User \/ ListTick
  PROVE  CacheInv'
  <1>1. \A v \in View : list[v] \in Entry /\ EntryInv(list[v])
    BY DEF TypeInv, ViewInv, CacheInv
  <1>2. UNCHANGED <<ready, status>>
    BY DEF User, ChooseView, Select, Continue, RefreshList, Decide, ListTick, server
  <1>3. \A p \in Paragraph : Awaited(p) => Awaited(p)'
    <2>1. CASE UNCHANGED deed
      BY <2>1 DEF Awaited
    <2>2. ASSUME NEW d \in Decision, NEW kind \in Kind, Decide(d, kind)
          PROVE  \A p \in Paragraph : Awaited(p) => Awaited(p)'
      <3>1. deed[d].pc = "none" /\ \A e \in Decision \ {d} : deed'[e] = deed[e]
        BY <2>2 DEF Decide, TypeInv, BarInv, Decision
      <3> QED BY <3>1, AwaitedStays
    <2> QED BY <2>1, <2>2 DEF User, ChooseView, Select, Continue, RefreshList, ListTick
  <1>4. \A v \in View : EntryInv(list'[v])
    BY <1>1, EntryOperations DEF User, ChooseView, Select, Continue, RefreshList,
       Decide, ListTick, TypeInv, ViewInv
  <1> QED BY <1>2, <1>3, <1>4, AgreesStays DEF CacheInv

LEMMA NextCache ==
  ASSUME TypeInv, CacheInv, [Next]_vars
  PROVE  CacheInv'
  <1>1. ASSUME ready => ready', UNCHANGED <<status, deed, list>>
        PROVE  CacheInv'
    BY <1>1, AgreesStays DEF CacheInv, Awaited
  <1>2. CASE UNCHANGED vars
    BY <1>1, <1>2 DEF vars, server
  <1>3. CASE Complete \/ HistoryReads \/ HistoryLost
    BY <1>1, <1>3 DEF Complete, HistoryReads, HistoryLost, server
  <1> QED BY <1>2, <1>3, UserCache, DecidesCache, ReadsCache DEF Next

LEMMA InitCache == Init => CacheInv
  BY DEF Init, CacheInv, EntryInv, Agrees, NoEntry, Nothing

LEMMA CacheIsCurrent == TypeInv /\ CacheInv => ListIsCurrent
  <1> SUFFICES ASSUME TypeInv, CacheInv, Over,
                      list[filter].fetch = "idle", list[filter].data.state = "ready",
                      list[filter].sound
               PROVE  /\ Shown = Listed(filter, CurrentAnswer)
                      /\ \A p \in Shown : list[filter].data.items[p] = status[p]
    BY DEF ListIsCurrent
  <1>1. Agrees(list[filter].data)
    BY DEF TypeInv, ViewInv, CacheInv, EntryInv
  <1>2. \A p \in Paragraph : ~Awaited(p)
    BY DEF Over, Awaited
  <1>3. ready /\ \A p \in Paragraph : list[filter].data.items[p] = status[p]
    BY <1>1, <1>2 DEF Agrees
  <1>4. Shown = {p \in Paragraph : Matches(filter, status[p])}
    BY <1>3 DEF Shown, Listed
  <1>5. CurrentAnswer = [state |-> "ready", items |-> status]
    BY <1>3 DEF CurrentAnswer
  <1>6. Listed(filter, CurrentAnswer) = {p \in Paragraph : Matches(filter, status[p])}
    BY <1>5 DEF Listed
  <1> QED BY <1>3, <1>4, <1>6

(***************************************************************************)
(* Once the page's decisions are over and nothing is being fetched, the    *)
(* list shows the findings as the server has them, for any number of       *)
(* views, decisions, refreshes, failures and answers still on their way.   *)
(***************************************************************************)
THEOREM ListStaysCurrent == Spec => []ListIsCurrent
  <1>1. TypeInv /\ CacheInv /\ [Next]_vars => CacheInv'
    BY NextCache
  <1> QED BY <1>1, InitCache, CacheIsCurrent, AlwaysTypes, PTL DEF Spec

-----------------------------------------------------------------------------
(* The history panel.  An operation is recorded before the status changes, *)
(* and no operation is ever taken back.                                    *)

RecordInv ==
  /\ Processed \subseteq Operated
  /\ \A d \in Decision :
       deed[d].pc \in {"recorded", "answered"} => deed[d].paragraph \in Operated

\* What the panel has read is still so, unless a decision has met the reads.
PanelInv ==
  ~history.met =>
    /\ history.fetch = "findings" => history.read = Processed
    /\ history.fetch = "operations" => history.read = Operated
    /\ history.fetch = "idle" /\ history.loaded => history.read = {}

HistoryInv == RecordInv /\ PanelInv

LEMMA InitHistory == Init => HistoryInv
  <1> SUFFICES ASSUME Init PROVE HistoryInv
    OBVIOUS
  <1>1. last \in [Paragraph -> Kind \cup {"none"}]
    BY ReviewPageAssumption DEF Init
  <1>2. \A p \in Paragraph : status[p] # "pending" => last[p] # "none"
    BY <1>1, OutcomeType DEF Init
  <1> QED BY <1>2 DEF Init, HistoryInv, RecordInv, PanelInv, Processed, Operated,
          NoHistory, Deed

\* A panel that is left alone or opened anew.
LEMMA PanelKept ==
  ASSUME TypeInv, PanelInv, UNCHANGED <<status, last>>,
         history' = history \/ history'.fetch = "sent" \/ history' = NoHistory
  PROVE  PanelInv'
  <1>1. Processed' = Processed /\ Operated' = Operated
    BY DEF Processed, Operated
  <1> QED BY <1>1 DEF PanelInv, NoHistory

\* A decision that ends or is sent leaves the records as they are.
LEMMA RecordKept ==
  ASSUME RecordInv, UNCHANGED <<status, last>>,
         \A d \in Decision : deed'[d] = deed[d] \/ deed'[d].pc \in {"sent", "over"}
  PROVE  RecordInv'
  BY DEF RecordInv, Processed, Operated

LEMMA TurnsPanel ==
  ASSUME TypeInv, NEW p, TurnTo(p)
  PROVE  history' = history \/ history'.fetch = "sent" \/ history' = NoHistory
  <1>1. [NoHistory EXCEPT !.fetch = "sent"].fetch = "sent"
    BY DEF NoHistory
  <1> QED BY <1>1 DEF TurnTo

LEMMA ReselectPanel ==
  ASSUME TypeInv, Reselect
  PROVE  history' = history \/ history'.fetch = "sent" \/ history' = NoHistory
  <1> DEFINE data == list'[filter'].data
             listed == Listed(filter', data)
  <1>1. \/ TurnTo(NoParagraph) \/ TurnTo(selected)
        \/ TurnTo(Top(Order[filter'], data.items, listed))
    BY DEF Reselect
  <1> HIDE DEF data, listed
  <1> QED BY <1>1, TurnsPanel

LEMMA UserHistory ==
  ASSUME TypeInv, HistoryInv, User
  PROVE  HistoryInv'
  <1>1. UNCHANGED <<status, last>>
    BY DEF User, ChooseView, Select, Continue, RefreshList, Decide, server
  <1>2. \A d \in Decision : deed'[d] = deed[d] \/ deed'[d].pc = "sent"
    BY DEF User, ChooseView, Select, Continue, RefreshList, Decide, TypeInv, BarInv
  <1>3. history' = history \/ history'.fetch = "sent" \/ history' = NoHistory
    <2>1. ASSUME NEW v \in View, ChooseView(v)
          PROVE  history' = history \/ history'.fetch = "sent" \/ history' = NoHistory
      BY <2>1, ReselectPanel DEF ChooseView
    <2>2. CASE Continue
      BY <2>2, TurnsPanel DEF Continue
    <2> QED BY <2>1, <2>2, TurnsPanel DEF User, Select, RefreshList, Decide
  <1> QED BY <1>1, <1>2, <1>3, PanelKept, RecordKept DEF HistoryInv

LEMMA DecidesHistory ==
  ASSUME TypeInv, HistoryInv, NEW d \in Decision, Decides(d)
  PROVE  HistoryInv'
  <1>1. ASSUME UNCHANGED <<status, last, history>>, Ends(d) PROVE HistoryInv'
    <2>1. \A e \in Decision : deed'[e] = deed[e] \/ deed'[e].pc = "over"
      BY <1>1 DEF Ends, TypeInv, BarInv, Deed
    <2> QED BY <1>1, <2>1, PanelKept, RecordKept DEF HistoryInv
  <1>2. CASE DecisionRefused(d) \/ DecisionLost(d)
    BY <1>1, <1>2 DEF DecisionRefused, DecisionLost, FailsToEnd, server
  <1>3. CASE Refresh(d)
    <2>1. \A e \in Decision : deed'[e] = deed[e] \/ deed'[e].pc = "over"
      BY <1>3 DEF Refresh, Ends, TypeInv, BarInv, Deed
    <2>2. history' = history \/ history'.fetch = "sent"
      BY <1>3 DEF Refresh, NoHistory
    <2> QED BY <1>3, <2>1, <2>2, PanelKept, RecordKept DEF Refresh, server, HistoryInv
  <1>4. ASSUME history' = Meets PROVE PanelInv'
    <2>1. /\ history'.fetch = history.fetch /\ history'.loaded = history.loaded
          /\ history'.read = history.read
          /\ history'.met = (history.met \/ history.fetch \in {"findings", "operations"})
      BY <1>4 DEF Meets, TypeInv, ViewInv, Panel
    <2> QED BY <2>1 DEF PanelInv, HistoryInv
  <1>5. ASSUME deed[d].pc \in ActivePc PROVE deed[d] \in DeedRecord
    BY <1>5 DEF TypeInv, BarInv, Deeds, Deed, ActivePc
  <1>6. CASE Recorded(d)
    <2>1. deed[d] \in DeedRecord
      BY <1>5, <1>6 DEF Recorded, ActivePc
    <2>2. deed[d].kind # "none"
      BY <2>1, ReviewPageAssumption DEF DeedRecord
    <2>3. Operated' = Operated \cup {deed[d].paragraph}
      BY <1>6, <2>1, <2>2 DEF Recorded, Operated, TypeInv, ServerInv, DeedRecord
    <2>4. Processed' = Processed
      BY <1>6 DEF Recorded, Processed
    <2>5. /\ deed'[d].paragraph = deed[d].paragraph
          /\ \A e \in Decision \ {d} : deed'[e] = deed[e]
      BY <1>6, <2>1 DEF Recorded, TypeInv, BarInv, DeedRecord
    <2>6. RecordInv'
      BY <2>3, <2>4, <2>5 DEF RecordInv, HistoryInv
    <2> QED BY <1>4, <1>6, <2>6 DEF Recorded, HistoryInv
  <1>7. CASE Updated(d)
    <2>1. deed[d] \in DeedRecord
      BY <1>5, <1>7 DEF Updated, ActivePc
    <2>2. Operated' = Operated /\ deed[d].paragraph \in Operated
      BY <1>7 DEF Updated, Operated, RecordInv, HistoryInv
    <2>3. Processed' \subseteq Processed \cup {deed[d].paragraph}
      BY <1>7 DEF Updated, Processed, TypeInv, ServerInv
    <2>4. /\ deed'[d].paragraph = deed[d].paragraph
          /\ \A e \in Decision \ {d} : deed'[e] = deed[e]
      BY <1>7, <2>1 DEF Updated, TypeInv, BarInv, DeedRecord
    <2>5. RecordInv'
      BY <2>2, <2>3, <2>4 DEF RecordInv, HistoryInv
    <2> QED BY <1>4, <1>7, <2>5 DEF Updated, HistoryInv
  <1> QED BY <1>2, <1>3, <1>6, <1>7 DEF Decides

LEMMA ReadsHistory ==
  ASSUME TypeInv, HistoryInv, HistoryReads
  PROVE  HistoryInv'
  <1>1. UNCHANGED <<status, last, deed>>
    BY DEF HistoryReads, server
  <1>2. RecordInv' /\ Processed' = Processed /\ Operated' = Operated
    BY <1>1 DEF RecordInv, HistoryInv, Processed, Operated
  <1>3. history \in Panel
    BY DEF TypeInv, ViewInv
  <1>4. ASSUME NEW kind \in {"findings", "operations"}, NEW paragraphs,
               ReadFirst(kind, paragraphs)
        PROVE  /\ history'.fetch = kind /\ history'.read = paragraphs
    BY <1>3, <1>4 DEF ReadFirst, Panel
  <1>5. ASSUME NEW kind, NEW paragraphs, ReadSecond(kind, paragraphs)
        PROVE  /\ history.fetch = kind /\ history'.fetch = "idle"
               /\ history'.met = history.met /\ history'.read = paragraphs
    BY <1>3, <1>5 DEF ReadSecond, Panel
  <1>6. CASE ReadFirst("findings", Processed) \/ ReadFirst("operations", Operated)
    BY <1>2, <1>4, <1>6 DEF HistoryInv, PanelInv
  <1>7. CASE ReadSecond("findings", history.read \ Operated)
    <2>1. ~history.met => history.read \ Operated = {}
      BY <1>5, <1>7 DEF HistoryInv, PanelInv, RecordInv
    <2> QED BY <1>2, <1>5, <1>7, <2>1 DEF HistoryInv, PanelInv
  <1>8. CASE ReadSecond("operations", Processed \ history.read)
    <2>1. ~history.met => Processed \ history.read = {}
      BY <1>5, <1>8 DEF HistoryInv, PanelInv, RecordInv
    <2> QED BY <1>2, <1>5, <1>8, <2>1 DEF HistoryInv, PanelInv
  <1> QED BY <1>6, <1>7, <1>8 DEF HistoryReads

LEMMA NextHistory ==
  ASSUME TypeInv, HistoryInv, [Next]_vars
  PROVE  HistoryInv'
  <1>1. ASSUME UNCHANGED <<status, last, deed>>,
               history' = history \/ history'.fetch = "sent" \/ history' = NoHistory
        PROVE  HistoryInv'
    BY <1>1, PanelKept, RecordKept DEF HistoryInv
  <1>2. CASE UNCHANGED vars \/ Complete \/ ListTick \/ HistoryLost
    BY <1>1, <1>2 DEF vars, server, Complete, ListTick, HistoryLost
  <1>3. ASSUME NEW v \in View, Reads(v) \/ ListLost(v)
        PROVE  HistoryInv'
    BY <1>1, <1>3, ReselectPanel DEF Reads, ListAnswered, ListShown, ListLost, server
  <1> QED BY <1>2, <1>3, UserHistory, DecidesHistory, ReadsHistory DEF Next

(***************************************************************************)
(* The history panel never lists a paragraph as processed without its last *)
(* operation, unless a decision came between the two reads it is made of:  *)
(* also after decisions that failed between their two writes.              *)
(***************************************************************************)
THEOREM HistoryHasOperations == Spec => []ProcessedHasOperation
  <1>1. HistoryInv => ProcessedHasOperation
    BY DEF HistoryInv, PanelInv, ProcessedHasOperation
  <1>2. TypeInv /\ HistoryInv /\ [Next]_vars => HistoryInv'
    BY NextHistory
  <1> QED BY <1>1, <1>2, InitHistory, AlwaysTypes, PTL DEF Spec

=============================================================================
