SPECIFICATION FairSpec
CONSTANTS
  Usernames = {u1}
  Passwords = {p1,p2}
  Tokens = {k1,k2}
  b1 = b1
  Browsers <- MCBrowsers
  Tabs = {t1,t2}
  BrowserOf <- MCBrowserOf
  Requests = {r1,r2}
  None = None
  MaxRestarts = 1
INVARIANTS
  SessionsHaveAccounts
  TokensAreEarned
  IInv
PROPERTIES
  CredentialsStay
  LoadingEnds
