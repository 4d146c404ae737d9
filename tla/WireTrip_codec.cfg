CONSTANTS
    Transports = {"polling", "websocket"}
    Namespaces <- MCNamespaces
    Ids <- MCIds
    Attachments <- MCAttachments
    Payloads = {"json", "binary"}
    AckPayloads = {"json"}
    MaxMessages = 2
SPECIFICATION Spec
INVARIANTS
    MessagesArrive
    AllReturned
    SentAsProtocol
CHECK_DEADLOCK FALSE
