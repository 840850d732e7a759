SPECIFICATION Spec
CONSTANTS
  Processes = {l1, l2}
  Nobody = Nobody
  NoPart = NoPart
  Given = Given
  p1 = p1
  p2 = p2
  Sheets <- SmallSheets
  Answers <- SmallAnswers
  Arguments <- SmallArguments
  MaxStops = 1
SYMMETRY Symmetry
INVARIANTS OneCollectsUnlessRaced ResumeNeverSkips NoPartAskedTwice LostPartsBounded UnreviewedPriceIsCertain
