CONSTANTS
  Events <- MCEvents
  MaxEvents = 2
SPECIFICATION Spec
INVARIANTS TypeOK RecordMatchesStream
PROPERTIES ImplementsEventStream EventsDoNotWait
CHECK_DEADLOCK FALSE
