SPECIFICATION Spec
CONSTANTS
  User = {"ann", "bob", "cal"}
  Browser = {tab1, tab2}
  Session = {s1, s2, s3}
  Name = {"a", "b", "c"}
  Password = {"p1", "p2"}
  Weak = {}
  Secret = {"otp"}
  Code = {"k1", "k2"}
  Language = {"en", "id"}
  Ask <- Chores
  Start <- TeamOnly
  None = None
  MaxRequests = 3
CHECK_DEADLOCK FALSE
PROPERTIES CodePromptKeepsTheCookie
