SPECIFICATION Spec
CONSTANTS
  radio0 = radio0
  radio1 = radio1
  wlan = wlan
  net = net
  None = None
  RadioNum <- Num
  WifiDevices = {}
  MeshDevices = {}
  Layouts <- FewLayouts
  ApAnswers <- ApValues
  PartAnswers <- PartValues
INVARIANTS TypeOK NoEntityTwice InterfacesHaveSensors ShownIsCurrent TotalIsSum
PROPERTY WholePollFindsAll
CONSTRAINT Explored
