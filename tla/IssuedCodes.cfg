SPECIFICATION Spec
CONSTANTS
  Schemes = {"PL", "ES", "FI", "IN", "IR", "NO", "TH", "he-IL", "zh-CN",
             "zh-HK", "zh-TW", "AU", "CH", "PT", "ABA", "IBAN", "EAN", "ISBN10",
             "ISBN13", "ISSN", "Luhn", "card", "IMEI", "ISIN", "ISO6346"}
  Bodies <- MCBodies
  Slopes = {0, 1, 3}
  Countries <- MCCountries
  Today = 20260728
INVARIANTS
  SlipsAreRefused
  SumsAgree
CHECK_DEADLOCK FALSE
