SPECIFICATION Spec

CONSTANTS
  FirstYear = 2023
  Months = 14
  Instants <- AroundMonths
  MaxSamples = 3

INVARIANTS
  TypeOK
  MonthsTile
  SampledMonthsAreOffered
  ForecastIsFair

CHECK_DEADLOCK FALSE
