------------------------------- MODULE VirtualList -------------------------------
(***************************************************************************)
(* The windowed rendering of the feed (virtual-list.ts): of itemCount rows *)
(* at a fixed stride only those around the viewport are in the DOM.  The   *)
(* scroll position and the height the hook holds lag behind the container: *)
(* the height is 0 before it is measured, and the list shrinks (a filter,  *)
(* a clear) before a scroll event corrects the position.                   *)
(***************************************************************************)
EXTENDS Integers

CONSTANTS
  RowHeight, RowGap, Overscan, MinViewport,   \* the hook's defaults, scaled down
  MaxItems, MaxHeight                         \* bounds: rows, container height

ASSUME ListAssumption ==
  /\ RowHeight \in Nat \ {0} /\ RowGap \in Nat /\ Overscan \in Nat
  /\ MinViewport \in Nat \ {0} /\ MaxItems \in Nat /\ MaxHeight \in Nat

VARIABLES
  itemCount,       \* rows after filtering
  scrollTop,       \* hook state
  viewportHeight,  \* hook state
  position,        \* the container's own scroll position
  height           \* the container's own height

listVars == <<itemCount, scrollTop, viewportHeight, position, height>>

Stride == RowHeight + RowGap
TotalHeight(n) == IF n = 0 THEN 0 ELSE n * RowHeight + (n - 1) * RowGap
MaxOf(a, b) == IF a > b THEN a ELSE b
MinOf(a, b) == IF a < b THEN a ELSE b

Viewport == MaxOf(viewportHeight, MinViewport)
FirstVisible == scrollTop \div Stride
VisibleCount == (Viewport + Stride - 1) \div Stride + 1

EndIndex ==
  IF itemCount = 0 THEN -1
  ELSE MinOf(itemCount - 1, FirstVisible + VisibleCount + Overscan)

StartIndex ==
  IF itemCount = 0 THEN 0
  ELSE MaxOf(0, MinOf(FirstVisible - Overscan, EndIndex - VisibleCount - Overscan))

StartOffset == StartIndex * Stride
EndOffset ==
  IF itemCount = 0 THEN 0
  ELSE MaxOf(0, TotalHeight(itemCount) - ((EndIndex + 1) * RowHeight + EndIndex * RowGap))

-----------------------------------------------------------------------------
ListInit ==
  /\ itemCount = 0 /\ scrollTop = 0 /\ viewportHeight = 0
  /\ position = 0 /\ height \in 1..MaxHeight

Furthest(n) == MaxOf(0, TotalHeight(n) - height)

(* The rows change; the browser keeps the position inside the content.     *)
RowsChange ==
  /\ itemCount' \in 0..MaxItems
  /\ position' = MinOf(position, Furthest(itemCount'))
  /\ UNCHANGED <<scrollTop, viewportHeight, height>>

Scroll ==
  /\ position' \in 0..Furthest(itemCount)
  /\ UNCHANGED <<itemCount, scrollTop, viewportHeight, height>>

OnScroll == scrollTop' = position /\ UNCHANGED <<itemCount, viewportHeight, position, height>>
UpdateHeight == viewportHeight' = height /\ UNCHANGED <<itemCount, scrollTop, position, height>>

ListNext == RowsChange \/ Scroll \/ OnScroll \/ UpdateHeight

-----------------------------------------------------------------------------
(* The rendered rows are rows of the list, with the spacers they make up   *)
(* its height, and even at a position past the end a full window is left;  *)
(* once the hook has the container's position and height, every row the    *)
(* container shows is rendered.                                            *)
RowsRendered ==
  LET rendered == StartIndex .. EndIndex IN
  /\ rendered \subseteq 0..(itemCount - 1)
  /\ itemCount > 0 =>
       /\ EndIndex - StartIndex + 1 >= MinOf(itemCount, VisibleCount)
       /\ StartOffset + TotalHeight(EndIndex - StartIndex + 1) + EndOffset
            = TotalHeight(itemCount)
  /\ (scrollTop = position /\ viewportHeight = height) =>
       \A row \in 0..(itemCount - 1) :
         (row * Stride < position + height /\ row * Stride + RowHeight > position)
           => row \in rendered
=============================================================================
