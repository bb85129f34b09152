\* Two iterations overlap; GitHub never answers for the first project,
\* and Telegram never takes the report on the third.
SPECIFICATION CronSpec
CONSTANTS
  a = a
  b = b
  c = c
  d = d
  t1 = t1
  t2 = t2
  Null = Null
  Projects = {a, b, c, d}
  Rank <- MCRank
  Iterations = {t1, t2}
  Interval = 2
  MaxRun = 1
  MaxFailures = 1
  Unreachable = {a}
  Refused = {c}
INVARIANTS
  TypeOK
  RowIsTruthful
PROPERTIES
  ProjectsAheadAreReported
