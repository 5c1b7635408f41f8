SPECIFICATION DecisionSpec
CONSTANTS
  Probed = {"pe"}
  Packs <- Some
  Engines <- Agents
  MaxFiles = 1
  MaxLoads = 4
  Names <- NamesOfAll
  Folded <- LowerCase
  Begins <- Longer
  Droppings = {"thumbs.db"}
  Images = {"x.iso"}
  Doubles = {"._f", "._d"}
  Bundles = {"slack.app"}
  Junctions = {"all users", "link"}
  Looping = {"all users"}
  Fact <- Facts
  Listed <- ListedHere
  Numbers <- Integer
  Cores = 4
  Settings <- Governed
  Shares <- Percent
  RatioMax = 60
  Quiet = 2
  Retention = 5
  SkewTolerance = 1
  Norm <- LowerNames
  RuleFiles <- FilesHere
  Starts <- StartsHere
  Walks <- WalksHere
  Tenants <- TenantsHere
  Beside <- BesideIt
  Now = 10
  Waves <- WavesHere
CHECK_DEADLOCK FALSE
INVARIANTS CacheIsCompile RuleStandsAlone ExcludedTargetIsTold CarveOutIsScanned WalkIsInTheBooks NoScanInVain PreviewIsTrue EndedScansStartNoWave
PROPERTIES OnlySlowedForCause NotSleptForEver
