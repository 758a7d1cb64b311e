CONSTANTS
    Event = {e1, e2, e3}
    Block = {b1, b2}
    NULL = NULL
SPECIFICATION EventFairSpec
INVARIANTS QueueInvariant FirstDeliveriesInOrder
PROPERTIES EveryEventDelivered
