SPECIFICATION FairSpec
CONSTANTS
  MaxChanges = 2
  Browsers = {TRUE, FALSE}
  MaxMail = 1
INVARIANTS
  TypeOK
  NoLostUpdate
  NoticedIsShown
  StillPolling
PROPERTIES
  EventuallyShownOnceDrawn
