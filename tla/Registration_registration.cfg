SPECIFICATION Spec
CONSTANTS
  i1 = i1
  i2 = i2
  e1 = e1
  e2 = e2
  r1 = r1
  r2 = r2
  r3 = r3
  NoId = NoId
  NoEmail = NoEmail
  Ids <- MCIds
  Emails <- MCEmails
  Requests <- MCRequests
SYMMETRY Symmetric
INVARIANTS
  TypeOK
  CustomersStayCustomers
  OneBootstrapAdmin
  HolderKnowsEmail
