SPECIFICATION StorySpec
VIEW StoryView
CONSTRAINT SentencesBound
CONSTRAINT UpgradeBound
CONSTRAINT GraphBound
CONSTANTS
  a = a
  b = b
  t = t
  n1 = n1
  n2 = n2
  n3 = n3
  p = p
  q = q
  e1 = e1
  c1 = c1
  c2 = c2
  f1 = f1
  f2 = f2
  f3 = f3
  space = space
  paragraph = paragraph
  scene = scene
  hero = hero
  Ann = Ann
  ANN = ANN
  Bea = Bea
  Name = {a, b}
  Pronoun = {b}
  Trait = {t}
  NoName = NoName
  Unknown = Unknown
  Finding <- MCFinding
  MaxId = 5
  MaxBatch = 2
  MaxAnalyses = 2
  MaxCrash = 2
  StoryNode = {n1, n2, n3}
  Writer = {w1, w2}
  RelationsTold <- MCRelationsTold
  Event = {1, 2, 3, 4}
  NoOrder = 2
  Orders = {1, 2}
  CausalGraph <- MCCausalGraph
  Analysis = {r1}
  Editor = {u1}
  ThreadName = {p, q}
  EventsOf <- MCEventsOf
  StoryEvent = {e1}
  Colours = 2
  MaxThreads = 3
  MaxLinks = 1
  Character = {c1, c2}
  StateFacet = {f1, f2, f3}
  CharacterOf <- MCCharacterOf
  NoFacet = NoFacet
  Mentioned <- MCMentioned
  ArcAnswer <- MCArcAnswer
  MaxStates = 3
  MaxArcs = 2
  Char = {a, b, space, paragraph, scene}
  Drafts <- MCDrafts
  Phrase <- MCPhrase
  White = {space, paragraph}
  Paragraph = paragraph
  Scene = scene
  MinDocument = 4
  TargetMin = 2
  TargetMax = 3
  HardMax = 4
  SearchRange = 1
  Reader = {r1}
  MaxIds = 6
  MaxMentions = 1
  Facet = {f1, f2, f3}
  FacetOf <- MCFacetOf
  TypeOf <- MCTypeOf
  Attempt = {a1}
  Signals <- MCSignals
  Folded <- MCFolded
  EntityOf <- MCEntityOf
  Nobody = Nobody
  MaxFound = 2
  Work = {d1}
  Manuscripts <- MCManuscripts
  LengthOf <- MCLengthOf
  Shortest = 2
  Embedder = {w1, w2}
  MaxEditions = 2
  Workloads <- MCWorkloads
  ContextBudget = 16
  OutputBudget = 7
  Overhead = 1
  PerItem = 2
  Attempts = 2
  EnoughData = 1
  EaseAfter = 2
  MaxMultiplier = 20
  OldNode = {n1}
  OldFacet = {f1, f2}
  NodeOf <- MCNodeOf
  OldStateFacet = {f2}
  Upgrader = {w1, w2}
  BatchSize = 1
  UpgradeRetries = 1
  MaxUpgrades = 1
INVARIANTS
  FacetsOnce
  CausalAcyclic
  CausalSound
  ColoursDistinct
  AnchorsHold
  ReviewSound
  
  EveryItemAsked
  UpgradeComplete
PROPERTIES
  FacetsHeld
CHECK_DEADLOCK FALSE
