CONSTANTS
  c1 = c1
  w1 = w1
  ann = ann
  Customers <- MCCustomers
  Emails <- MCEmails
  EmailOf <- MCEmailOf
  Workers <- MCWorkers
  MaxEvents = 4
SPECIFICATION Spec
CHECK_DEADLOCK FALSE
INVARIANTS SubscriberIsEntitled
