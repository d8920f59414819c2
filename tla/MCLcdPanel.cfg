SPECIFICATION SettingsSpec
CONSTANTS MaxBoots = 2
          MaxMenus = 2
          MaxMisses = 1
INVARIANTS PixelsDecoded MarginBlack
PROPERTY SettingsSurvive
CHECK_DEADLOCK FALSE
