SPECIFICATION Spec
CONSTANTS
  Events = {1, 2, 3}
  Consumers = {c1, c2}
  Relays = {r1, r2}
  Batch = 2
  Poison = {1}
  MaxFaults = 2
SYMMETRY Symmetry
INVARIANTS TypeOK ExactlyOnceEffect PublishedMeansDelivered NoLostEvent
PROPERTIES PublishedIsFinal ImplementsDelivery
