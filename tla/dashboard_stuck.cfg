SPECIFICATION FairSpec
CONSTANTS
  MaxChanges = 1
  Browsers = {TRUE}
  MaxMail = 1
PROPERTIES
  EventuallyShown
