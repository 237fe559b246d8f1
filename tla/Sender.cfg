SPECIFICATION Spec
CONSTANTS
  mocks = mocks
  customer = customer
  metadata = metadata
  public = public
  other = other
  private = private
  Urls <- MCUrls
  Hosts = {mocks, customer, metadata}
  Addresses = {public, other, private}
  Denied = {private}
  HostOf <- MCHostOf
  Refused = {"ftp"}
  Malformed = {"bad"}
  Registered <- MCRegistered
  ReceiverOf <- MCReceiverOf
  Metadata = "metadata"
  Answers <- MCAnswers
  NoUrl = NoUrl
  MaxHops = 3
  CheckTime = 1
  ConnectTime = 1
  ReadTime = 1
  MaxSkew = 1
  Tolerance = 12
INVARIANTS NeverDenied ResultTells EachVerifies
PROPERTY SendEnds
