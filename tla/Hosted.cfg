SPECIFICATION HostedSpec
CONSTANTS
    Items = {i1, i2}
    Workers = {w1, w2}
    Parent = parent
    Idle = idle
    Ties = {FALSE}
    plain = plain
    noted = noted
    other = other
    batch = batch
    invoice = invoice
    receipt = receipt
    Requests = {plain, noted, other, batch}
    Documents = {invoice, receipt}
    Docs <- BatchDocs
    Previews = {i1, i2}
    Operations = {i1, i2}
    Clients = {w1, w2}
    Missing = missing
    MaxConnectionRevision = 2
SYMMETRY HostedSymmetry
CHECK_DEADLOCK FALSE
INVARIANTS
    DispatchedOnce
    OperationReadable
    DocumentPreviewedOnce
    AnswersAgree
PROPERTIES
    DecidedOnSeenState
    DispatchUnderAuthority
    ConfirmedUnderAuthority
