SPECIFICATION Spec
CONSTANTS
  Usernames = {u1,u2}
  Passwords = {p1}
  Tokens = {k1,k2}
  b1 = b1
  Browsers <- MCBrowsers
  Tabs = {t1,t2}
  BrowserOf <- MCBrowserOf
  Requests = {r1,r2}
  None = None
  MaxRestarts = 1
SYMMETRY Symmetry
INVARIANTS
  SingleAdmin
