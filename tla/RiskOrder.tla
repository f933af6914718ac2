------------------------------ MODULE RiskOrder ------------------------------
(***************************************************************************)
(* The orders in which the findings of a task are listed.  Both drivers    *)
(* sort what they read with the same comparator, so a list is determined   *)
(* by its findings, provided that the comparator is a strict total order.  *)
(* A paragraph has one finding, and paragraphs are compared by position.   *)
(***************************************************************************)
EXTENDS Integers, FiniteSets

CONSTANTS
  Paragraph,  \* paragraphs with a finding
  Level,      \* risk level of each: 3 high, 2 medium, 1 low
  Score,      \* score of each
  Position    \* place of each in the order of paragraph ids

ASSUME RiskOrderAssumption ==
  /\ IsFiniteSet(Paragraph)
  /\ Level \in [Paragraph -> 1..3]
  /\ Score \in [Paragraph -> Nat]
  /\ Position \in [Paragraph -> Nat]
  /\ \A p, q \in Paragraph : Position[p] = Position[q] => p = q

Handling == {"pending", "accepted", "rejected", "ignored"}

SortMode == {"recommended", "score_desc", "paragraph_asc"}

\* getHandlingPriority
Priority(handling) ==
  CASE handling = "pending"  -> 4
    [] handling = "accepted" -> 3
    [] handling = "rejected" -> 2
    [] handling = "ignored"  -> 1

ByParagraph(p, q) == Position[p] < Position[q]

ByScore(p, q) ==
  Score[p] > Score[q] \/ (Score[p] = Score[q] /\ ByParagraph(p, q))

\* status says how each paragraph is handled.
Recommended(status, p, q) ==
  LET a == Priority(status[p])
      b == Priority(status[q])
  IN \/ Level[p] > Level[q]
     \/ Level[p] = Level[q] /\ a > b
     \/ Level[p] = Level[q] /\ a = b /\ ByScore(p, q)

\* sortRiskFindings: p is listed before q.
Before(mode, status, p, q) ==
  CASE mode = "paragraph_asc" -> ByParagraph(p, q)
    [] mode = "score_desc"    -> ByScore(p, q)
    [] mode = "recommended"   -> Recommended(status, p, q)

\* The finding at the top of the list of those of S.
IsTop(mode, status, S, p) ==
  p \in S /\ \A q \in S \ {p} : Before(mode, status, p, q)

Top(mode, status, S) == CHOOSE p \in S : IsTop(mode, status, S, p)

=============================================================================
