SPECIFICATION FairSpec
CONSTANTS
  r1 = r1
  r2 = r2
  t1 = t1
  t2 = t2
  usd_eur = usd_eur
  usd_gbp = usd_gbp
  eur_gbp = eur_gbp
  None = None
  Requests = {r1}
  Tasks = {t1}
  Pairs = {usd_eur, usd_gbp}
  Asked = {usd_eur}
  Refreshed = {usd_eur, usd_gbp}
  MaxMoves = 1
  MaxRetries = 1
INVARIANTS TypeOK RefusedOnlyForCause RefreshIsComplete
PROPERTIES EveryRequestEnds UsdRatesConverge
