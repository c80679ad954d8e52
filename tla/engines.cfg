SPECIFICATION Spec
SYMMETRY MCSymmetry
CONSTANTS
  c1 = c1
  c2 = c2
  c3 = c3
  k1 = k1
  k2 = k2
  None = None
  Contracts = {c1, c2, c3}
  f1 = f1
  f2 = f2
  Keys = {k1, k2}
  Flats = {f1, f2}
  Histories <- MCHistories
  PeriodDays = {1, 2}
  MaxItems = 2
  Shares = {0, 1, 2}
  Amounts <- MCAmounts
  Advances = {3}
  MaxShares = 3
  MaxCosts = 2
  MonthDays = 30
  DueDay = 3
  Starts = {0, 19}
  Ends = {45, None}
  Rents = {2, 3}
  Payments = {1, 7}
  MaxBookings = 2
  Days = {0, 3, 16, 32, 33, 92, 93}
  AfterDays <- MCAfterDays
  Fees <- MCFees
  Deadline = 7
  BookingDays = {1, 2}
  BookingAmounts <- MCBookings
  MaxEntries = 3
  Invoices <- MCInvoices
CHECK_DEADLOCK FALSE
INVARIANTS CostsExact FairShares ViewsAgree CampaignClaims MatchAgrees PreflightAgrees
PROPERTY PaidStaysPaid
