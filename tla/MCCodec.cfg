CONSTANTS
  DomainLenMax = 5
  PointerMax = 4
  Headers <- MCHeaders
  Questions <- MCQuestions
  Records <- MCRecords
  OtherIds <- MCOtherIds
  MaxEntries = 4
  ClientBufferSize = 4096
SPECIFICATION Spec
INVARIANTS TypeOK ReadAsWritten SentOnAsMeant
