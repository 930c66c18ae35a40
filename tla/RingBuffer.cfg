\* One producer, one consumer and a thread that polls ring_buffer_is_empty.
SPECIFICATION Spec
CONSTANTS
    Producers = {p1}
    Consumers = {c1}
    Observers = {o1}
    Item = {a, b}
    NoItem = NoItem
    Capacity = 4
    MaxOps = 4
INVARIANTS TypeOK CountersBalance PeakCoversUsage NonEmptyAnswerSound
PROPERTY ImplementsQueue
