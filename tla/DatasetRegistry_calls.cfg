SPECIFICATION RegistrySpec
CONSTANTS
  c1 = c1
  c2 = c2
  c3 = c3
  c4 = c4
  postgres = postgres
  jdbc = jdbc
  Calls = {c1, c2, c3, c4}
  Sources = {postgres, jdbc}
  Identities = {customers}
  customers = customers
  IdentityOf <- MCIdentityOf
  MaxFaults = 2
SYMMETRY MCSymmetry
INVARIANT OneRowPerIdentity
INVARIANT AnswersAreTruthful
INVARIANT AcknowledgedStays
INVARIANT AnnouncedWasRegistered
PROPERTY ImplementsCatalogue
