CONSTANTS
  camp = camp
  Trips <- MCTrips
  NameOf <- MCName
  None = None
  Starts = {1, 2}
  Length = 1
  Month = 5
  Window = 2
  Grace = 1
  Persist = 1
  Offers <- MCOffers
  MaxNow = 3
  MaxEvents = 2
SPECIFICATION FairSpec
CHECK_DEADLOCK FALSE
INVARIANTS SaidOnce
PROPERTIES AnswerStands QuestionReaches AnswerObeyed
