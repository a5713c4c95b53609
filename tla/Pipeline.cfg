SPECIFICATION PipelineSpec
CONSTANTS
  tls = tls
  h3 = h3
  a1 = a1
  a2 = a2
  mapped = mapped
  Sniffers = {tls, h3}
  Http3 = h3
  Queues = {"events", "detections"}
  Capacity = 1
  MaxEvents = 2
  None = None
  Inboxes <- MCInboxes
  JSON <- MCJson
  Height <- MCHeight
  Unblockable = {mapped}
  Score = 90
  Limit = 70
INVARIANTS TypeOK EachEventOnce DetectionsAct SecretsMasked
PROPERTIES NeverHeldUp QueueDrains
CHECK_DEADLOCK FALSE
