\* Two requests at a time; two Stripe subscriptions, one YooKassa payment; with row level security
\* and without.
SPECIFICATION FairSpec
CONSTANTS
  Handler = {h1, h2}
  StripeSub = {s1, s2}
  Charge = {c1}
  None = None
  Updates = {"cancelled"}
  MaxRows = 2
  MaxSent = 3
  MaxFaults = 1
INVARIANTS
  TypeOK
  OneSubscriptionUnlessRaced
  AnsweredCheckoutStands
PROPERTIES
  ImplementsSubscription
  CheckoutLands
